---- MODULE Spec2Model ----
(***************************************************************************)
(* The library scan pipeline of stash (pkg/manager/task_scan.go): one      *)
(* ScanTask per candidate path reconciles a file on disk with the catalog. *)
(* Every store transaction of a task is one atomic step; the file reads    *)
(* and local decisions that follow it belong to the same step.  The files  *)
(* and the configuration change only while no task runs.                   *)
(***************************************************************************)
EXTENDS Integers, Sequences, FiniteSets, TLC

(* ------------------------------ bounds -------------------------------- *)
MaxContent == 2
MaxTime == 2
MaxScans == 3
MaxFsOps == 3
MaxFaults == 1
MaxParallel == 2
MaxZip == 3
MaxParScans == 2
MaxParFsOps == 2
MaxFaultScans == 2
MaxFaultFsOps == 2
MaxStartScans == 2
MaxStartFsOps == 2
MaxWhere == 3
MaxHaving == 2
MaxJoins == 3
MaxSubFilters == 2
MaxIds == 2
MaxCriteria == 2
MaxCPU == 12
MaxParallelTasks == 4

(* ------------------------------ universe ------------------------------ *)
(* A path is <<directory, file name>>. *)
ScenePaths == {<<"v", "a.mp4">>, <<"v", "b.mp4">>}
PlainImagePaths == {<<"d", "x.jpg">>, <<"d", "y.jpg">>}
ZipPaths == {<<"z", "g.zip">>, <<"z", "h.zip">>}
(* a file that is neither a gallery, nor a video, nor an image *)
NonePath == <<"n", "notes.txt">>
(* the files under the scan roots: videos, or images beside one zip gallery,
   or zip galleries *)
GZip == <<"z", "g.zip">>
ImageLibrary == PlainImagePaths \cup {GZip}
Libraries == {ScenePaths, ImageLibrary, ZipPaths}
Contents == 1..MaxContent
Times == 1..MaxTime
Slots == 1..MaxParallel

NoPath == <<>>
NoFile == [exists |-> FALSE, content |-> 0, mtime |-> 0]
NoRec == [id |-> 0]

(* models.HashAlgorithm *)
HashAlgorithmMd5 == "MD5"
HashAlgorithmOshash == "OSHASH"

(* utils.MD5FromFilePath / utils.OSHashFromFilePath: deterministic functions of
   the file bytes; 0 stands for the empty string / SQL NULL. *)
MD5FromFilePath(c) == 100 + c
OSHashFromFilePath(c) == 200 + c
(* the MD5 of a zip file with content z, and utils.MD5FromString of a folder *)
MD5FromZip(z) == 300 + z
MD5FromString(dir) == 400 + Len(dir[2])

(* The image entries of a zip file with content z, in walk order: content z
   has z - 1 of them (none for z = 1); an entry carries its own content and
   modification time. *)
EntryNames == <<"e1", "e2", "e3", "e4">>
ZipContents == 1..MaxZip
ZipEntries(z) == [i \in 1..(z - 1) |->
                    [name |-> EntryNames[i], content |-> ((i - 1) % MaxContent) + 1,
                     mtime |-> 1]]

VARIABLES
    config,      \* calculateMD5, fileNamingAlgorithm, parallelTasks
    files,       \* path -> file on disk
    db,          \* the catalog: tables and their autoincrement counters
    tasks,       \* slot -> running ScanTask (its position and locals)
    screenshots, \* hashes under which a scene screenshot/thumbnail exists
    thumbs,      \* checksums under which an image thumbnail exists
    budget,      \* scans, file changes and store faults still allowed
    hist,        \* history: lastDone, scanned, epoch, started, done
    filter,      \* a filterBuilder with its chain of sub-filters (pkg/sqlite)
    query,       \* the queryBuilder the filter is added to
    findRow,     \* the row of the primary table a find query is evaluated for
    numCPU       \* runtime.NumCPU() of the host

(* the query side does not change while the scanner runs *)
sqlvars == <<filter, query, findRow, numCPU>>
scanvars == <<config, files, db, tasks, screenshots, thumbs, hist>>
vars == <<config, files, db, tasks, screenshots, thumbs, budget, hist, filter, query,
          findRow, numCPU>>

Idle == [pc |-> "idle"]

Running == {t \in Slots : tasks[t].pc # "idle"}

(* Patch(r, cols): r with the fields named in cols replaced *)
Patch(r, cols) == [f \in DOMAIN r |-> IF f \in DOMAIN cols THEN cols[f] ELSE r[f]]

(* ------------------------------ the store ------------------------------ *)
(* FaultVecs(n): which of the n store calls of a transaction return an error;
   a call fails only while the fault budget lasts. *)
Count(v) == Cardinality({i \in DOMAIN v : v[i]})
FaultVecs(n) == {v \in [1..n -> BOOLEAN] : Count(v) <= budget.faults}

FindByPath(tbl, p) == {r \in tbl : r.path = p}
FindByChecksum(tbl, h) == {r \in tbl : r.checksum = h}
FindByOSHash(tbl, h) == {r \in tbl : r.oshash = h}
Find(tbl, id) == CHOOSE r \in tbl : r.id = id

(* the result of a single-row lookup: one of the matching rows, or nil *)
Rows(found) == IF found = {} THEN {NoRec} ELSE found

(* UPDATE <table> SET <cols> WHERE id = :id *)
Update(tbl, id, cols) == {IF r.id = id THEN Patch(r, cols) ELSE r : r \in tbl}

(* Scene.GetHash *)
GetHash(s, alg) == IF alg = HashAlgorithmMd5 THEN s.checksum ELSE s.oshash

(* an isFileModified that reports every file as modified *)
isFileModifiedAlways(fileModTime, modTime) == TRUE

(* ScanTask.isFileModified; a NULL stored time reads as the zero time 0 *)
isFileModified(fileModTime, modTime) == modTime # fileModTime

(* utils.FileExists *)
FileExists(p) == p \in DOMAIN files /\ files[p].exists

(* image.ZipFilename, image.IsZipPath and the zip file of a zip image path *)
ZipFilename(zipPath, name) == <<zipPath[2], name>>
IsZipPath(p) == \E z \in ZipPaths : z[2] = p[1]
ZipOf(p) == CHOOSE z \in ZipPaths : z[2] = p[1]

(* the file behind an image path: a plain file, or an entry of a zip file *)
ImageFile(p) ==
    IF IsZipPath(p)
    THEN IF FileExists(ZipOf(p))
         THEN LET es == ZipEntries(files[ZipOf(p)].content)
                  hit == {i \in DOMAIN es : es[i].name = p[2]}
              IN IF hit = {} THEN NoFile
                 ELSE LET e == es[CHOOSE i \in hit : TRUE]
                      IN [exists |-> TRUE, content |-> e.content, mtime |-> e.mtime]
         ELSE NoFile
    ELSE IF FileExists(p) THEN files[p] ELSE NoFile

(* image.FileExists *)
ImageFileExists(p) == ImageFile(p).exists

(* filepath.Dir of a plain image path, as a gallery path *)
Dir(p) == <<"/", p[1]>>

(* MigrateHash: generated files named by the old hash are renamed to the new *)
MigrateHash(shots, oldHash, newHash) ==
    IF oldHash \in shots THEN (shots \ {oldHash}) \cup {newHash} ELSE shots

(* ------------------------------ task state ----------------------------- *)
(* ScanTask as constructed by the scan job for one walked path.  path, s,
   fileModTime, checksum, oshash, err, cdid and dup belong to the candidate
   being reconciled: the walked file, or one image entry of a zip gallery. *)
NewTask(p, first) ==
    [pc |-> first, path |-> p, top |-> p,
     calculateMD5 |-> config.calculateMD5,
     fileNamingAlgorithm |-> config.fileNamingAlgorithm,
     zipGallery |-> NoRec, queue |-> <<>>, scanImages |-> FALSE, images |-> 0,
     s |-> NoRec, fileModTime |-> 0, checksum |-> 0, oshash |-> 0,
     retScene |-> NoRec,
     GenerateSprite |-> config.scanGenerateSprites,
     GeneratePreview |-> config.scanGeneratePreviews,
     \* Start's inner wait group: sub-tasks started, still running, and the
     \* order in which they finished
     spawned |-> {}, iwg |-> {}, finished |-> <<>>,
     \* history of this run
     err |-> "", failedAt |-> "", failed |-> FALSE, writeAfterErr |-> FALSE,
     writes |-> 0, did |-> {}, cdid |-> {}, dup |-> FALSE, dupWrote |-> FALSE,
     migrated |-> <<>>, rerun |-> (hist.lastDone = p), pre |-> db]

Set(t, cols) == tasks' = [tasks EXCEPT ![t] = Patch(tasks[t], cols)]

(* a store call returned an error: the scan function logs it and returns *)
Abort(T, at) == [pc |-> "done", err |-> "store", failedAt |-> at, failed |-> TRUE]

(* one committed store write of kind w; e: a store call of the same
   transaction had returned an error before it *)
WroteE(T, w, e) == [writes |-> T.writes + 1, did |-> T.did \cup {w},
                    cdid |-> T.cdid \cup {w}, dupWrote |-> T.dupWrote \/ T.dup,
                    writeAfterErr |-> T.writeAfterErr \/ T.err = "store" \/ e]
Wrote(T, w) == WroteE(T, w, FALSE)

Spend(v) == budget' = [budget EXCEPT !.faults = @ - Count(v)]

(* ------------------------------ scanScene ------------------------------ *)
(* The found branch of scanScene from the point `from` on, for the local copy
   s of the record: the name of the next step that needs a store write.
   1: mod time unset?  2: modified or size unset?  3: container unset?
   4: oshash unset?  5: MD5 wanted and unset? *)
SceneNext(T, s, from) ==
    IF from <= 1 /\ s.modTime = 0 THEN "sceneSetModTime"
    ELSE IF from <= 2 /\ (isFileModified(T.fileModTime, s.modTime) \/ ~s.sizeValid)
        THEN "sceneRescan"
    ELSE IF from <= 3 /\ ~s.formatValid THEN "sceneFormat"
    ELSE IF from <= 4 /\ s.oshash = 0 THEN "sceneOSHash"
    ELSE IF from <= 5 /\ T.calculateMD5 /\ s.checksum = 0 THEN "sceneMD5"
    ELSE "done"

(* makeScreenshots runs once the flow is past the rescan *)
makeScreenshots(shots, next, hash) ==
    IF next \in {"sceneSetModTime", "sceneRescan"} THEN shots ELSE shots \cup {hash}

(* scanScene: the read transaction FindByPath, the stat, and for a new path
   the hashing *)
SceneLookup(t) ==
    LET T == tasks[t] IN
    /\ T.pc = "sceneLookup"
    /\ \E v \in FaultVecs(1), s \in Rows(FindByPath(db.scenes, T.path)) :
        /\ Spend(v)
        /\ IF v[1]
           THEN Set(t, Abort(T, "FindByPath")) /\ UNCHANGED screenshots
           ELSE LET f == files[T.path]
                    T1 == Patch(T, [fileModTime |-> f.mtime, s |-> s])
                    next == SceneNext(T1, s, 1)
                IN IF s.id # 0
                   THEN /\ Set(t, [fileModTime |-> f.mtime, s |-> s, pc |-> next])
                        /\ screenshots' = makeScreenshots(screenshots, next,
                                              GetHash(s, T.fileNamingAlgorithm))
                   ELSE /\ Set(t, [fileModTime |-> f.mtime,
                                   oshash |-> OSHashFromFilePath(f.content),
                                   checksum |->
                                      IF T.fileNamingAlgorithm = HashAlgorithmMd5 \/ T.calculateMD5
                                      THEN MD5FromFilePath(f.content) ELSE 0,
                                   pc |-> "sceneHashLookup"])
                        /\ UNCHANGED screenshots
    /\ UNCHANGED <<thumbs, config, files, db, hist, sqlvars>>

(* scanScene: "if file mod time is not set, set it now" *)
SceneSetModTime(t) ==
    LET T == tasks[t] IN
    /\ T.pc = "sceneSetModTime"
    /\ \E v \in FaultVecs(2) :
        /\ Spend(v)
        /\ IF v[1] \/ v[2]
           THEN /\ Set(t, Abort(T, IF v[1] THEN "UpdateFileModTime" ELSE "Find"))
                /\ UNCHANGED <<db, screenshots>>
           ELSE LET tbl == Update(db.scenes, T.s.id, [modTime |-> T.fileModTime])
                    s == Find(tbl, T.s.id)
                    next == SceneNext(T, s, 2)
                IN /\ db' = [db EXCEPT !.scenes = tbl]
                   /\ Set(t, Wrote(T, "modtime") @@ [s |-> s, pc |-> next])
                   /\ screenshots' = makeScreenshots(screenshots, next,
                                              GetHash(s, T.fileNamingAlgorithm))
    /\ UNCHANGED <<thumbs, config, files, hist, sqlvars>>

(* a scanScene that migrates the generated files after every rescan *)
HashChangedAlways(oldHash, newHash) == TRUE

(* scanScene: "Migrate any generated files if the hash has changed" *)
HashChanged(oldHash, newHash) == newHash # oldHash

(* rescanScene and the hash migration that follows it in scanScene *)
SceneRescan(t) ==
    LET T == tasks[t]
        f == files[T.path]
        oldHash == GetHash(T.s, config.fileNamingAlgorithm)
        cols == (IF T.calculateMD5 THEN [checksum |-> MD5FromFilePath(f.content)]
                 ELSE <<>>)
                @@ [oshash |-> OSHashFromFilePath(f.content), formatValid |-> TRUE,
                    sizeValid |-> TRUE, modTime |-> T.fileModTime]
    IN
    /\ T.pc = "sceneRescan"
    /\ \E v \in FaultVecs(1) :
        /\ Spend(v)
        /\ IF v[1]
           THEN Set(t, Abort(T, "Update")) /\ UNCHANGED <<db, screenshots>>
           ELSE LET tbl == Update(db.scenes, T.s.id, cols)
                    s == Find(tbl, T.s.id)
                    newHash == GetHash(s, config.fileNamingAlgorithm)
                    next == SceneNext(T, s, 3)
                    shots == IF HashChanged(oldHash, newHash)
                             THEN MigrateHash(screenshots, oldHash, newHash)
                             ELSE screenshots
                IN /\ db' = [db EXCEPT !.scenes = tbl]
                   /\ Set(t, Wrote(T, "rescan") @@
                             [s |-> s, pc |-> next,
                              migrated |-> IF HashChanged(oldHash, newHash)
                                           THEN <<oldHash, newHash>> ELSE <<>>])
                   /\ screenshots' = makeScreenshots(shots, next,
                                              GetHash(s, T.fileNamingAlgorithm))
    /\ UNCHANGED <<thumbs, config, files, hist, sqlvars>>

(* scanScene: "check for container" *)
SceneFormat(t) ==
    LET T == tasks[t] IN
    /\ T.pc = "sceneFormat"
    /\ \E v \in FaultVecs(1) :
        /\ Spend(v)
        /\ IF v[1]
           THEN Set(t, Abort(T, "UpdateFormat")) /\ UNCHANGED db
           ELSE /\ db' = [db EXCEPT !.scenes = Update(@, T.s.id, [formatValid |-> TRUE])]
                /\ Set(t, Wrote(T, "format") @@ [pc |-> SceneNext(T, T.s, 4)])
    /\ UNCHANGED <<thumbs, config, files, screenshots, hist, sqlvars>>

(* a backfill that never sees a clash *)
HashClashNever(dupe) == FALSE

(* scanScene: "check if oshash clashes with existing scene" / "check if
   checksum clashes with existing scene": dupe != nil *)
HashClash(dupe) == dupe.id # 0

(* scanScene: "check if oshash is set"; the error of FindByOSHash is dropped *)
SceneOSHash(t) ==
    LET T == tasks[t]
        oshash == OSHashFromFilePath(files[T.path].content)
    IN
    /\ T.pc = "sceneOSHash"
    /\ \E v \in FaultVecs(2), d \in Rows(FindByOSHash(db.scenes, oshash)) :
        LET dupe == IF v[1] THEN NoRec ELSE d
            E == IF v[1] THEN [err |-> "store", failedAt |-> "FindByOSHash"] ELSE <<>>
        IN
        /\ Spend(v)
        /\ IF HashClash(dupe)
           THEN Set(t, [pc |-> "done", err |-> "collision", failed |-> TRUE]) /\ UNCHANGED db
           ELSE IF v[2]
           THEN Set(t, Abort(T, "UpdateOSHash")) /\ UNCHANGED db
           ELSE /\ db' = [db EXCEPT !.scenes = Update(@, T.s.id, [oshash |-> oshash])]
                /\ Set(t, E @@ WroteE(T, "oshash", v[1]) @@ [pc |-> SceneNext(T, T.s, 5)])
    /\ UNCHANGED <<thumbs, config, files, screenshots, hist, sqlvars>>

(* scanScene: "check if MD5 is set, if calculateMD5 is true" *)
SceneMD5(t) ==
    LET T == tasks[t]
        checksum == MD5FromFilePath(files[T.path].content)
    IN
    /\ T.pc = "sceneMD5"
    /\ \E v \in FaultVecs(2), d \in Rows(FindByChecksum(db.scenes, checksum)) :
        LET dupe == IF v[1] THEN NoRec ELSE d
            E == IF v[1] THEN [err |-> "store", failedAt |-> "FindByChecksum"] ELSE <<>>
        IN
        /\ Spend(v)
        /\ IF HashClash(dupe)
           THEN Set(t, [pc |-> "done", err |-> "collision", failed |-> TRUE]) /\ UNCHANGED db
           ELSE IF v[2]
           THEN Set(t, Abort(T, "UpdateChecksum")) /\ UNCHANGED db
           ELSE /\ db' = [db EXCEPT !.scenes = Update(@, T.s.id, [checksum |-> checksum])]
                /\ Set(t, E @@ WroteE(T, "checksum", v[1]) @@ [pc |-> "done"])
    /\ UNCHANGED <<thumbs, config, files, screenshots, hist, sqlvars>>

(* a scanScene that creates a record whatever the lookup by hash found *)
SceneHashBranchAlwaysCreate(s) == "sceneCreate"

(* a scanScene that treats every record found by hash as a duplicate *)
SceneHashBranchNeverMigrate(s) == IF s.id = 0 THEN "sceneCreate" ELSE "done"

(* scanScene, a record found by hash: duplicate, path update or create *)
SceneHashBranch(s) ==
    IF s.id = 0 THEN "sceneCreate"
    ELSE IF FileExists(s.path) THEN "done"
    ELSE "sceneMigrate"

(* scanScene: "check for scene by checksum and oshash"; the read transaction's
   errors are dropped; then makeScreenshots and the duplicate test *)
SceneHashLookup(t) ==
    LET T == tasks[t]
        sceneHash == IF T.fileNamingAlgorithm = HashAlgorithmMd5 THEN T.checksum
                     ELSE T.oshash
    IN
    /\ T.pc = "sceneHashLookup"
    /\ \E v \in FaultVecs(2),
          byMD5 \in Rows(FindByChecksum(db.scenes, T.checksum)),
          byOS \in Rows(FindByOSHash(db.scenes, T.oshash)) :
        LET s1 == IF T.checksum # 0 /\ ~v[1] THEN byMD5 ELSE NoRec
            asked2 == s1.id = 0
            s == IF asked2 THEN (IF v[2] THEN NoRec ELSE byOS) ELSE s1
            failed == (T.checksum # 0 /\ v[1]) \/ (asked2 /\ v[2])
            E == IF failed THEN [err |-> "store", failedAt |-> "FindByHash"] ELSE <<>>
        IN
        /\ (T.checksum = 0 => ~v[1])
        /\ (~asked2 => ~v[2])
        /\ Spend(v)
        /\ Set(t, E @@ [s |-> s,
                        dup |-> s.id # 0 /\ FileExists(s.path),
                        pc |-> SceneHashBranch(s)])
    /\ screenshots' = screenshots \cup {sceneHash}
    /\ UNCHANGED <<thumbs, config, files, db, hist, sqlvars>>

(* a path migration that replaces the record by a new one at the new path *)
SceneMigrateReplace(t) ==
    LET T == tasks[t] IN
    /\ T.pc = "sceneMigrate"
    /\ Spend([i \in 1..1 |-> FALSE])
    /\ db' = [db EXCEPT !.scenes = (@ \ {r \in @ : r.id = T.s.id})
                                       \cup {Patch(T.s, [id |-> db.nextScene,
                                                         path |-> T.path])},
                        !.nextScene = @ + 1]
    /\ Set(t, Wrote(T, "path") @@ [pc |-> "done"])
    /\ UNCHANGED <<thumbs, config, files, screenshots, hist, sqlvars>>

(* scanScene: "already exists. Updating path..." *)
SceneMigrate(t) ==
    LET T == tasks[t] IN
    /\ T.pc = "sceneMigrate"
    /\ \E v \in FaultVecs(1) :
        /\ Spend(v)
        /\ IF v[1]
           THEN Set(t, Abort(T, "Update")) /\ UNCHANGED db
           ELSE /\ db' = [db EXCEPT !.scenes = Update(@, T.s.id, [path |-> T.path])]
                /\ Set(t, Wrote(T, "path") @@ [pc |-> "done"])
    /\ UNCHANGED <<thumbs, config, files, screenshots, hist, sqlvars>>

(* scanScene: "doesn't exist. Creating new item..." *)
SceneCreate(t) ==
    LET T == tasks[t]
        newScene == [id |-> db.nextScene, path |-> T.path,
                     checksum |-> T.checksum, oshash |-> T.oshash,
                     modTime |-> T.fileModTime,
                     sizeValid |-> TRUE, formatValid |-> TRUE,
                     born |-> hist.epoch]
    IN
    /\ T.pc = "sceneCreate"
    /\ \E v \in FaultVecs(1) :
        /\ Spend(v)
        /\ IF v[1]
           THEN Set(t, Abort(T, "Create")) /\ UNCHANGED db
           ELSE /\ db' = [db EXCEPT !.scenes = @ \cup {newScene},
                                    !.nextScene = @ + 1]
                /\ Set(t, Wrote(T, "create") @@ [retScene |-> newScene, pc |-> "done"])
    /\ UNCHANGED <<thumbs, config, files, screenshots, hist, sqlvars>>

(* ------------------------------ scanImage ------------------------------ *)
CandidateReset == [s |-> NoRec, fileModTime |-> 0, checksum |-> 0, oshash |-> 0,
                   err |-> "", failedAt |-> "", cdid |-> {}, dup |-> FALSE]

(* scanZipImages: the sub-task for the next image entry of the zip, if any;
   a top-level task has no entries left and is done *)
NextCandidate(T) ==
    IF T.queue = <<>> THEN [pc |-> "done"]
    ELSE [pc |-> "imageLookup",
          path |-> ZipFilename(T.zipGallery.path, Head(T.queue)),
          queue |-> Tail(T.queue)] @@ CandidateReset

(* scanImage logs a store error and returns; the zip walk goes on *)
AbortCandidate(T, at) ==
    IF T.queue = <<>> THEN Abort(T, at)
    ELSE [failed |-> TRUE] @@ NextCandidate(T)

(* the found branch of scanImage from the point `from` on *)
ImageNext(T, i, from) ==
    IF from <= 1 /\ i.modTime = 0 THEN "imageSetModTime"
    ELSE IF from <= 2 /\ isFileModified(T.fileModTime, i.modTime) THEN "imageRescan"
    ELSE "end"

(* a scanImage that associates no image *)
AssocNextNone(T) == "end"

(* after the record is settled in the not-found branch: the association *)
AssocNext(T) ==
    IF T.zipGallery.id # 0 THEN "imageAssocZip"
    ELSE IF config.createGalleriesFromFolders THEN "imageAssocFolder"
    ELSE "end"

(* generateThumbnail *)
generateThumbnail(th, i) == th \cup {i.checksum}

(* leave the step: either on to the named step, or, at the end of scanImage,
   generateThumbnail(i) and the next candidate *)
ImageGoto(t, T, cols, next, i) ==
    IF next = "end"
    THEN /\ Set(t, NextCandidate(T) @@ cols)
         /\ thumbs' = generateThumbnail(thumbs, i)
    ELSE /\ Set(t, cols @@ [pc |-> next])
         /\ UNCHANGED thumbs

ImageAbort(t, T, at) == Set(t, AbortCandidate(T, at)) /\ UNCHANGED <<db, thumbs>>

(* scanImage: the read transaction FindByPath, the stat, and for a new path
   the checksum *)
ImageLookup(t) ==
    LET T == tasks[t] IN
    /\ T.pc = "imageLookup"
    /\ \E v \in FaultVecs(1), i \in Rows(FindByPath(db.images, T.path)) :
        /\ Spend(v)
        /\ IF v[1] THEN ImageAbort(t, T, "FindByPath")
           ELSE LET f == ImageFile(T.path)
                    T1 == Patch(T, [fileModTime |-> f.mtime])
                IN /\ UNCHANGED db
                   /\ IF i.id # 0
                      THEN ImageGoto(t, T, [fileModTime |-> f.mtime, s |-> i],
                                     ImageNext(T1, i, 1), i)
                      ELSE ImageGoto(t, T, [fileModTime |-> f.mtime,
                                            checksum |-> MD5FromFilePath(f.content)],
                                     "imageHashLookup", NoRec)
    /\ UNCHANGED <<config, files, screenshots, hist, sqlvars>>

(* scanImage: "if file mod time is not set, set it now" *)
ImageSetModTime(t) ==
    LET T == tasks[t] IN
    /\ T.pc = "imageSetModTime"
    /\ \E v \in FaultVecs(2) :
        /\ Spend(v)
        /\ IF v[1] \/ v[2]
           THEN ImageAbort(t, T, IF v[1] THEN "UpdateFileModTime" ELSE "Find")
           ELSE LET tbl == Update(db.images, T.s.id, [modTime |-> T.fileModTime])
                    i == Find(tbl, T.s.id)
                IN /\ db' = [db EXCEPT !.images = tbl]
                   /\ ImageGoto(t, T, Wrote(T, "modtime") @@ [s |-> i],
                                ImageNext(T, i, 2), i)
    /\ UNCHANGED <<config, files, screenshots, hist, sqlvars>>

(* rescanImage, and in scanImage the thumbnail check that follows it *)
ImageRescan(t) ==
    LET T == tasks[t]
        oldChecksum == T.s.checksum
        checksum == MD5FromFilePath(ImageFile(T.path).content)
    IN
    /\ T.pc = "imageRescan"
    /\ \E v \in FaultVecs(1) :
        /\ Spend(v)
        /\ IF v[1] THEN ImageAbort(t, T, "Update")
           ELSE LET tbl == Update(db.images, T.s.id,
                                  [checksum |-> checksum, modTime |-> T.fileModTime])
                    i == Find(tbl, T.s.id)
                    kept == IF oldChecksum # checksum THEN thumbs \ {oldChecksum}
                            ELSE thumbs
                IN /\ db' = [db EXCEPT !.images = tbl]
                   /\ Set(t, NextCandidate(T) @@ Wrote(T, "rescan") @@ [s |-> i])
                   /\ thumbs' = generateThumbnail(kept, i)
    /\ UNCHANGED <<config, files, screenshots, hist, sqlvars>>

(* scanImage: the read transaction FindByChecksum and the duplicate test *)
ImageHashLookup(t) ==
    LET T == tasks[t] IN
    /\ T.pc = "imageHashLookup"
    /\ \E v \in FaultVecs(1), i \in Rows(FindByChecksum(db.images, T.checksum)) :
        /\ Spend(v)
        /\ IF v[1] THEN ImageAbort(t, T, "FindByChecksum")
           ELSE /\ UNCHANGED db
                /\ IF i.id = 0 THEN ImageGoto(t, T, [s |-> i], "imageCreate", i)
                   ELSE IF ImageFileExists(i.path)
                   THEN ImageGoto(t, T, [s |-> i, dup |-> TRUE], AssocNext(T), i)
                   ELSE ImageGoto(t, T, [s |-> i], "imageMigrate", i)
    /\ UNCHANGED <<config, files, screenshots, hist, sqlvars>>

(* scanImage: "already exists.  Updating path..."; the local copy i keeps
   the old path *)
ImageMigrate(t) ==
    LET T == tasks[t] IN
    /\ T.pc = "imageMigrate"
    /\ \E v \in FaultVecs(1) :
        /\ Spend(v)
        /\ IF v[1] THEN ImageAbort(t, T, "Update")
           ELSE /\ db' = [db EXCEPT !.images = Update(@, T.s.id, [path |-> T.path])]
                /\ ImageGoto(t, T, Wrote(T, "path"), AssocNext(T), T.s)
    /\ UNCHANGED <<config, files, screenshots, hist, sqlvars>>

(* scanImage: "doesn't exist.  Creating new item..." *)
ImageCreate(t) ==
    LET T == tasks[t]
        newImage == [id |-> db.nextImage, path |-> T.path, checksum |-> T.checksum,
                     modTime |-> T.fileModTime, born |-> hist.epoch]
    IN
    /\ T.pc = "imageCreate"
    /\ \E v \in FaultVecs(1) :
        /\ Spend(v)
        /\ IF v[1] THEN ImageAbort(t, T, "Create")
           ELSE /\ db' = [db EXCEPT !.images = @ \cup {newImage}, !.nextImage = @ + 1]
                /\ ImageGoto(t, T, Wrote(T, "create") @@ [s |-> newImage],
                             AssocNext(T), newImage)
    /\ UNCHANGED <<config, files, screenshots, hist, sqlvars>>

(* scanImage: "associate with gallery": gallery.AddImage(zipGallery.ID, i.ID) *)
ImageAssocZip(t) ==
    LET T == tasks[t] IN
    /\ T.pc = "imageAssocZip"
    /\ \E v \in FaultVecs(1) :
        /\ Spend(v)
        /\ IF v[1] THEN ImageAbort(t, T, "AddImage")
           ELSE /\ db' = [db EXCEPT !.galleryImages = @ \cup {<<T.zipGallery.id, T.s.id>>}]
                /\ ImageGoto(t, T, Wrote(T, "assoc"), "end", T.s)
    /\ UNCHANGED <<config, files, screenshots, hist, sqlvars>>

(* an associateImageWithFolderGallery that creates a gallery for every image *)
ImageAssocFolderNew(t) ==
    LET T == tasks[t]
        path == Dir(T.path)
        g == [id |-> db.nextGallery, path |-> path,
              checksum |-> MD5FromString(path), zip |-> FALSE,
              modTime |-> 0, born |-> hist.epoch]
    IN
    /\ T.pc = "imageAssocFolder"
    /\ Spend([i \in 1..3 |-> FALSE])
    /\ db' = [db EXCEPT !.galleries = @ \cup {g},
                        !.nextGallery = @ + 1,
                        !.galleryImages = @ \cup {<<g.id, T.s.id>>}]
    /\ ImageGoto(t, T, Wrote(Patch(T, Wrote(T, "createGallery")), "assoc"), "end", T.s)
    /\ UNCHANGED <<config, files, screenshots, hist, sqlvars>>

(* associateImageWithFolderGallery, in one write transaction *)
ImageAssocFolder(t) ==
    LET T == tasks[t]
        path == Dir(T.path)
        newGallery == [id |-> db.nextGallery, path |-> path,
                       checksum |-> MD5FromString(path), zip |-> FALSE,
                       modTime |-> 0, born |-> hist.epoch]
    IN
    /\ T.pc = "imageAssocFolder"
    /\ \E v \in FaultVecs(3), found \in Rows(FindByPath(db.galleries, path)) :
        /\ (found.id # 0 => ~v[2])
        /\ (v[1] => ~v[2] /\ ~v[3])
        /\ (v[2] => ~v[3])
        /\ Spend(v)
        /\ IF v[1] \/ v[2] \/ v[3]
           THEN ImageAbort(t, T, IF v[1] THEN "FindByPath"
                                 ELSE IF v[2] THEN "Create" ELSE "AddImage")
           ELSE LET g == IF found.id = 0 THEN newGallery ELSE found
                    T1 == IF found.id = 0 THEN Patch(T, Wrote(T, "createGallery")) ELSE T
                IN /\ db' = [db EXCEPT
                               !.galleries = @ \cup {g},
                               !.nextGallery = IF found.id = 0 THEN @ + 1 ELSE @,
                               !.galleryImages = @ \cup {<<g.id, T.s.id>>}]
                   /\ ImageGoto(t, T, Wrote(T1, "assoc"), "end", T.s)
    /\ UNCHANGED <<config, files, screenshots, hist, sqlvars>>

(* ------------------------------ scanGallery ---------------------------- *)
(* scanZipImages(g): walkGalleryZip over the zip at g's path, one sub-task per
   image entry, each run to completion before the next *)
scanZipImages(T, g) ==
    LET es == IF FileExists(g.path) THEN ZipEntries(files[g.path].content) ELSE <<>>
        names == [i \in DOMAIN es |-> es[i].name]
    IN NextCandidate([zipGallery |-> g, queue |-> names]) @@ [zipGallery |-> g]

(* the end of scanGallery: "if g != nil { if scanImages ... else ... }" *)
GalleryEnd(T, g, scanImages) ==
    IF g.id = 0 THEN [pc |-> "done"]
    ELSE IF scanImages THEN scanZipImages(T, g)
    ELSE [pc |-> "galleryRegen", zipGallery |-> g]

(* the found branch of scanGallery from the point `from` on; it ends with
   scanImages = scanImages || images == 0 *)
GalleryNext(T, g, from, scanImages) ==
    IF from <= 1 /\ g.modTime = 0 THEN [pc |-> "gallerySetModTime"]
    ELSE IF from <= 2 /\ isFileModified(T.fileModTime, g.modTime)
        THEN [pc |-> "galleryUpdate"]
    ELSE GalleryEnd(T, g, scanImages \/ T.images = 0)

(* scanGallery: the read transaction; the image count is taken only when
   FindByPath returned a gallery together with an error *)
GalleryLookup(t) ==
    LET T == tasks[t] IN
    /\ T.pc = "galleryLookup"
    /\ \E v \in FaultVecs(1), row \in Rows(FindByPath(db.galleries, T.path)) :
        LET err == v[1]
            g == IF err THEN NoRec ELSE row
            images == IF g.id # 0 /\ err
                      THEN Cardinality({a \in db.galleryImages : a[1] = g.id})
                      ELSE 0
            f == files[T.path]
            T1 == Patch(T, [fileModTime |-> f.mtime, images |-> images, s |-> g])
        IN
        /\ Spend(v)
        /\ IF err THEN Set(t, Abort(T, "FindByPath"))
           ELSE IF g.id # 0
           THEN Set(t, GalleryNext(T1, g, 1, FALSE)
                       @@ [fileModTime |-> f.mtime, images |-> images, s |-> g])
           ELSE Set(t, [fileModTime |-> f.mtime, images |-> images,
                        checksum |-> MD5FromZip(f.content), pc |-> "galleryWrite"])
    /\ UNCHANGED <<config, files, db, screenshots, thumbs, hist, sqlvars>>

(* scanGallery: "if file mod time is not set, set it now"; "we will also
   need to rescan the zip contents" *)
GallerySetModTime(t) ==
    LET T == tasks[t] IN
    /\ T.pc = "gallerySetModTime"
    /\ \E v \in FaultVecs(2) :
        /\ Spend(v)
        /\ IF v[1] \/ v[2]
           THEN /\ Set(t, Abort(T, IF v[1] THEN "UpdateFileModTime" ELSE "Find"))
                /\ UNCHANGED db
           ELSE LET tbl == Update(db.galleries, T.s.id, [modTime |-> T.fileModTime])
                    g == Find(tbl, T.s.id)
                    T1 == Patch(T, Wrote(T, "modtime") @@ [s |-> g, scanImages |-> TRUE])
                IN /\ db' = [db EXCEPT !.galleries = tbl]
                   /\ Set(t, GalleryNext(T1, g, 2, TRUE) @@ Wrote(T, "modtime")
                             @@ [s |-> g, scanImages |-> TRUE])
    /\ UNCHANGED <<config, files, screenshots, thumbs, hist, sqlvars>>

(* scanGallery: "update the checksum and the modification time"; the local
   copy g is not refreshed *)
GalleryUpdate(t) ==
    LET T == tasks[t]
        checksum == MD5FromZip(files[T.path].content)
    IN
    /\ T.pc = "galleryUpdate"
    /\ \E v \in FaultVecs(1) :
        /\ Spend(v)
        /\ IF v[1]
           THEN Set(t, Abort(T, "UpdatePartial")) /\ UNCHANGED db
           ELSE /\ db' = [db EXCEPT !.galleries =
                            Update(@, T.s.id, [checksum |-> checksum,
                                               modTime |-> T.fileModTime])]
                /\ Set(t, GalleryEnd(Patch(T, Wrote(T, "rescan")), T.s, TRUE)
                          @@ Wrote(T, "rescan") @@ [scanImages |-> TRUE])
    /\ UNCHANGED <<config, files, screenshots, thumbs, hist, sqlvars>>

(* countImagesInZip *)
countImagesInZip(p) == Len(ZipEntries(files[p].content))

(* a scanGallery that creates a record for every zip *)
GalleryHasImagesAlways(p) == TRUE

(* scanGallery: "don't create gallery if it has no images" *)
GalleryHasImages(p) == countImagesInZip(p) > 0

(* scanGallery, no gallery at the path: one write transaction with
   FindByChecksum (its error dropped), then the duplicate test, the path
   update or the create *)
GalleryWrite(t) ==
    LET T == tasks[t]
        newGallery == [id |-> db.nextGallery, path |-> T.path, checksum |-> T.checksum,
                       zip |-> TRUE, modTime |-> T.fileModTime, born |-> hist.epoch]
    IN
    /\ T.pc = "galleryWrite"
    /\ \E v \in FaultVecs(2), row \in Rows(FindByChecksum(db.galleries, T.checksum)) :
        LET g == IF v[1] THEN NoRec ELSE row
            E == IF v[1] THEN [err |-> "store", failedAt |-> "FindByChecksum"] ELSE <<>>
            writes == IF g.id # 0 THEN ~FileExists(g.path)
                      ELSE GalleryHasImages(T.path)
        IN
        /\ (~writes => ~v[2])
        /\ Spend(v)
        /\ IF v[2]
           THEN Set(t, Abort(T, IF g.id # 0 THEN "Update" ELSE "Create")) /\ UNCHANGED db
           ELSE IF g.id # 0 /\ FileExists(g.path)
           THEN Set(t, E @@ [s |-> g, dup |-> TRUE] @@ GalleryEnd(T, g, FALSE))
                /\ UNCHANGED db
           ELSE IF g.id # 0
           THEN LET moved == Patch(g, [path |-> T.path])
                    W == E @@ WroteE(T, "path", v[1]) @@ [s |-> moved]
                IN /\ db' = [db EXCEPT !.galleries = Update(@, g.id, moved)]
                   /\ Set(t, W @@ GalleryEnd(T, moved, FALSE))
           ELSE IF GalleryHasImages(T.path)
           THEN LET W == E @@ WroteE(T, "create", v[1])
                         @@ [s |-> newGallery, scanImages |-> TRUE]
                IN /\ db' = [db EXCEPT !.galleries = @ \cup {newGallery},
                                       !.nextGallery = @ + 1]
                   /\ Set(t, GalleryEnd(Patch(T, W), newGallery, TRUE) @@ W)
           ELSE Set(t, E @@ [pc |-> "done"]) /\ UNCHANGED db
    /\ UNCHANGED <<config, files, screenshots, thumbs, hist, sqlvars>>

(* regenerateZipImages: "in case thumbnails have been deleted, regenerate
   them" *)
GalleryRegen(t) ==
    LET T == tasks[t]
        ids == {a[2] : a \in {b \in db.galleryImages : b[1] = T.zipGallery.id}}
        images == {i \in db.images : i.id \in ids}
    IN
    /\ T.pc = "galleryRegen"
    /\ \E v \in FaultVecs(1) :
        /\ Spend(v)
        /\ IF v[1]
           THEN Set(t, Abort(T, "FindByGalleryID")) /\ UNCHANGED thumbs
           ELSE /\ Set(t, [pc |-> "done"])
                /\ thumbs' = thumbs \cup {i.checksum : i \in images}
    /\ UNCHANGED <<config, files, db, screenshots, hist, sqlvars>>

(* ------------------------------ dispatcher ----------------------------- *)
(* ScanTask.Start: isGallery / isVideo / isImage by the file extension *)
FirstStep(p) ==
    IF p \in ZipPaths THEN "galleryLookup"
    ELSE IF p \in ScenePaths THEN "sceneLookup"
    ELSE IF p \in PlainImagePaths THEN "imageLookup"
    ELSE "done"

(* the scan job walks the library and starts a ScanTask for a file it found,
   at most config.parallelTasks of them at a time *)
StartTask(t, p) ==
    /\ tasks[t].pc = "idle"
    /\ \A u \in Slots : u < t => tasks[u].pc # "idle"
    /\ Cardinality(Running) < config.parallelTasks
    /\ budget.scans > 0
    /\ FileExists(p)
    /\ tasks' = [tasks EXCEPT ![t] = NewTask(p, FirstStep(p))]
    /\ budget' = [budget EXCEPT !.scans = @ - 1]
    /\ hist' = [hist EXCEPT !.started = @ + 1]
    /\ UNCHANGED <<thumbs, config, files, db, screenshots, sqlvars>>

(* ScanTask.Start, `if s != nil`: the sub-tasks Start launches for the scene
   scanScene returned *)
GenerateBlock(T) ==
    IF T.retScene.id = 0 THEN {}
    ELSE {k \in {"sprite"} : T.GenerateSprite} \cup {k \in {"preview"} : T.GeneratePreview}

(* iwg.Add(); go taskSprite.Start(&iwg) *)
StartSprite(t) ==
    LET T == tasks[t] IN
    /\ T.pc = "done"
    /\ "sprite" \in GenerateBlock(T) \ T.spawned
    /\ Set(t, [spawned |-> T.spawned \cup {"sprite"}, iwg |-> T.iwg \cup {"sprite"}])
    /\ UNCHANGED <<thumbs, config, files, db, screenshots, budget, hist, sqlvars>>

(* iwg.Add(); go taskPreview.Start(&iwg), after the sprite block *)
StartPreview(t) ==
    LET T == tasks[t] IN
    /\ T.pc = "done"
    /\ "sprite" \notin GenerateBlock(T) \ T.spawned
    /\ "preview" \in GenerateBlock(T) \ T.spawned
    /\ Set(t, [spawned |-> T.spawned \cup {"preview"}, iwg |-> T.iwg \cup {"preview"}])
    /\ UNCHANGED <<thumbs, config, files, db, screenshots, budget, hist, sqlvars>>

(* a sub-task finishes: its last statement is Done on the inner wait group *)
SubTaskDone(t, k) ==
    LET T == tasks[t] IN
    /\ T.pc = "done"
    /\ k \in T.iwg
    /\ Set(t, [iwg |-> T.iwg \ {k}, finished |-> Append(T.finished, k)])
    /\ UNCHANGED <<thumbs, config, files, db, screenshots, budget, hist, sqlvars>>

(* a Start that does not wait for its sub-tasks *)
iwgWaitSkipped(T) == TRUE

(* a Start whose wait never returns once a scene was created *)
iwgWaitForever(T) == T.retScene.id = 0

(* iwg.Wait() returns once no sub-task is running *)
iwgWait(T) == T.iwg = {}

(* ScanTask.Start: wg.Done(), the last statement *)
TaskDone(t) ==
    LET T == tasks[t] IN
    /\ T.pc = "done"
    /\ GenerateBlock(T) \subseteq T.spawned
    /\ iwgWait(T)
    /\ tasks' = [tasks EXCEPT ![t] = Idle]
    /\ hist' = [hist EXCEPT !.lastDone = T.top,
                            !.done = @ + 1,
                            !.scanned = IF T.err = "" /\ ~T.failed
                                        THEN @ \cup {T.top} ELSE @]
    /\ UNCHANGED <<thumbs, config, files, db, screenshots, budget, sqlvars>>

(* ------------------------------ environment ---------------------------- *)
Changed == /\ budget.changes > 0
           /\ Running = {}
           /\ budget' = [budget EXCEPT !.changes = @ - 1]
           /\ hist' = [hist EXCEPT !.lastDone = NoPath, !.scanned = {},
                                   !.epoch = @ + 1]

FileContents(p) == IF p \in ZipPaths THEN ZipContents ELSE Contents

(* the user creates, overwrites or touches a file between scans *)
WriteFile(p, c, m) ==
    /\ files[p] # [exists |-> TRUE, content |-> c, mtime |-> m]
    /\ Changed
    /\ files' = [files EXCEPT ![p] = [exists |-> TRUE, content |-> c, mtime |-> m]]
    /\ UNCHANGED <<thumbs, config, db, tasks, screenshots, sqlvars>>

(* the user deletes a file between scans *)
DeleteFile(p) ==
    /\ files[p].exists
    /\ Changed
    /\ files' = [files EXCEPT ![p] = NoFile]
    /\ UNCHANGED <<thumbs, config, db, tasks, screenshots, sqlvars>>

(* resolver_mutation_configure.go: ConfigureGeneral changes calculateMD5 and
   keeps the naming algorithm; "calculateMD5 must be true if using MD5" *)
ConfigureGeneral(calculateMd5) ==
    /\ DOMAIN files = ScenePaths
    /\ calculateMd5 # config.calculateMD5
    /\ ~(~calculateMd5 /\ config.fileNamingAlgorithm = HashAlgorithmMd5)
    /\ Changed
    /\ config' = [config EXCEPT !.calculateMD5 = calculateMd5]
    /\ UNCHANGED <<thumbs, files, db, tasks, screenshots, sqlvars>>

(* ------------------------------ filter builder ------------------------- *)
(* pkg/sqlite: SQL text is the sequence of its words, "" the empty sequence;
   a bound argument is written <<column, n>>. *)
andOp == <<"AND">>
orOp == <<"OR">>
(* a not that compiles as and *)
notOpAnd == <<"AND">>
notOp == <<"AND", "NOT">>

makeClause(sql, args) == [sql |-> sql, args |-> args]

(* join.alias: "the as string, or the table if as is empty" *)
alias(j) == IF j.as = "" THEN j.table ELSE j.as

(* joins that never count as already joined *)
equalsNever(j, o) == FALSE

(* join.equals *)
equals(j, o) == alias(j) = alias(o)

(* joins.add: "only add if not already joined"; the first new join that is
   already joined returns from the call *)
RECURSIVE add(_, _)
add(j, newJoins) ==
    IF newJoins = <<>> THEN j
    ELSE IF \E k \in DOMAIN j : equals(j[k], Head(newJoins)) THEN j
    ELSE add(Append(j, Head(newJoins)), Tail(newJoins))

(* a new filterBuilder; filter[i + 1] is the sub-filter of filter[i] *)
NewFilter == [subFilterOp |-> <<>>, joins |-> <<>>, whereClauses |-> <<>>,
              havingClauses |-> <<>>, err |-> FALSE]
(* no find query is evaluated *)
NoRow == [id |-> 0]

(* a new queryBuilder; executed is what its executeFind returned: "" before
   the call, "err" for qb.err, "sql" for the outcome of executeFindQuery *)
NewQuery == [joins |-> <<>>, whereClauses |-> <<>>, havingClauses |-> <<>>,
             args |-> <<>>, err |-> FALSE, executed |-> ""]

(* strings.Join *)
RECURSIVE Join(_, _)
Join(elems, sep) ==
    IF elems = <<>> THEN <<>>
    ELSE IF Len(elems) = 1 THEN elems[1]
    ELSE elems[1] \o sep \o Join(Tail(elems), sep)

RECURSIVE Flatten(_)
Flatten(seqs) == IF seqs = <<>> THEN <<>> ELSE Head(seqs) \o Flatten(Tail(seqs))

(* filterBuilder.andClauses *)
andClauses(input) ==
    LET clauses == [k \in DOMAIN input |-> input[k].sql]
        args == Flatten([k \in DOMAIN input |-> input[k].args])
    IN IF Len(clauses) > 0
       THEN [clause |-> <<"(">> \o Join(clauses, <<"AND">>) \o <<")">>, args |-> args]
       ELSE [clause |-> <<>>, args |-> <<>>]

(* a combination that always puts the operator before the sub-filter *)
getSubFilterClauseAlwaysOp(subFilterOp, clause, subFilterClause) ==
    IF subFilterClause # <<>> THEN clause \o subFilterOp \o subFilterClause ELSE clause

(* filterBuilder.getSubFilterClause *)
getSubFilterClause(subFilterOp, clause, subFilterClause) ==
    IF subFilterClause # <<>>
    THEN LET op == IF Len(clause) > 0 THEN subFilterOp
                   ELSE IF subFilterOp = notOp THEN <<"NOT">> ELSE <<>>
         IN clause \o op \o subFilterClause
    ELSE clause

(* arguments of the sub-filter put before the filter's own *)
appendArgsFirst(args, a) == a \o args

(* args = append(args, a...) *)
appendArgs(args, a) == args \o a

(* filterBuilder.generateWhereClauses of filter f[i] *)
RECURSIVE generateWhereClauses(_, _)
generateWhereClauses(f, i) ==
    LET own == andClauses(f[i].whereClauses) IN
    IF i < Len(f)
    THEN LET sub == generateWhereClauses(f, i + 1) IN
         IF sub.clause # <<>>
         THEN [clause |-> getSubFilterClause(f[i].subFilterOp, own.clause, sub.clause),
               args |-> appendArgs(own.args, sub.args)]
         ELSE own
    ELSE own

(* filterBuilder.generateHavingClauses of filter f[i] *)
RECURSIVE generateHavingClauses(_, _)
generateHavingClauses(f, i) ==
    LET own == andClauses(f[i].havingClauses) IN
    IF i < Len(f)
    THEN LET sub == generateHavingClauses(f, i + 1) IN
         IF sub.clause # <<>>
         THEN [clause |-> own.clause \o f[i].subFilterOp \o sub.clause,
               args |-> appendArgs(own.args, sub.args)]
         ELSE own
    ELSE own

(* filterBuilder.getAllJoins of filter f[i] *)
RECURSIVE getAllJoins(_, _)
getAllJoins(f, i) ==
    LET ret == add(<<>>, f[i].joins) IN
    IF i < Len(f)
    THEN LET subJoins == getAllJoins(f, i + 1) IN
         IF Len(subJoins) > 0 THEN add(ret, subJoins) ELSE ret
    ELSE ret

(* a filter that reports its own error only *)
getErrorOwn(f, i) == f[i].err

(* filterBuilder.getError of filter f[i] *)
RECURSIVE getError(_, _)
getError(f, i) ==
    IF f[i].err THEN TRUE
    ELSE IF i < Len(f) THEN getError(f, i + 1)
    ELSE FALSE

(* the clauses, joins and positions the callers pass in *)
WhereInputs ==
    {makeClause(<<"p">>, <<>>),
     makeClause(<<"q", "?">>, << <<"q", 1>> >>),
     makeClause(<<"r", "?", "?">>, << <<"r", 1>>, <<"r", 2>> >>),
     makeClause(<<>>, << <<"x", 1>> >>)}
HavingInputs ==
    {makeClause(<<"p">>, <<>>),
     makeClause(<<"q", "?">>, << <<"q", 1>> >>),
     makeClause(<<>>, << <<"x", 1>> >>)}
JoinInputs ==
    {[table |-> "t", as |-> "", onClause |-> "on1"],
     [table |-> "t", as |-> "u", onClause |-> "on2"],
     [table |-> "u", as |-> "", onClause |-> "on3"],
     [table |-> "v", as |-> "t", onClause |-> "on4"]}

(* a second call that replaces the sub-filter and its operator *)
setSubFilterReplace(i, op) ==
    /\ i \in DOMAIN filter
    /\ budget.subFilters > 0
    /\ budget' = [budget EXCEPT !.subFilters = @ - 1]
    /\ filter' = Append([SubSeq(filter, 1, i) EXCEPT ![i].subFilterOp = op],
                        NewFilter)
    /\ UNCHANGED <<query, scanvars, findRow, numCPU>>

(* and / or / not: set the sub-filter, a new filterBuilder here; "Sets the
   error state if sub-filter is already set" *)
setSubFilter(i, op) ==
    /\ i \in DOMAIN filter
    /\ budget.subFilters > 0
    /\ budget' = [budget EXCEPT !.subFilters = @ - 1]
    /\ filter' = IF i < Len(filter)
                 THEN [filter EXCEPT ![i].err = TRUE]
                 ELSE Append([filter EXCEPT ![i].subFilterOp = op], NewFilter)
    /\ UNCHANGED <<query, scanvars, findRow, numCPU>>

and(i) == setSubFilter(i, andOp)
or(i) == setSubFilter(i, orOp)
not(i) == setSubFilter(i, notOp)

(* filterBuilder.addJoin *)
addJoin(i, j) ==
    /\ i \in DOMAIN filter
    /\ budget.joins > 0
    /\ budget' = [budget EXCEPT !.joins = @ - 1]
    /\ filter' = [filter EXCEPT ![i].joins = add(@, <<j>>)]
    /\ UNCHANGED <<query, scanvars, findRow, numCPU>>

(* filterBuilder.addWhere: "Does not add anything if the provided string is
   empty" *)
addWhere(i, c) ==
    /\ i \in DOMAIN filter
    /\ budget.where > 0
    /\ budget' = [budget EXCEPT !.where = @ - 1]
    /\ filter' = IF c.sql = <<>> THEN filter
                 ELSE [filter EXCEPT ![i].whereClauses = Append(@, c)]
    /\ UNCHANGED <<query, scanvars, findRow, numCPU>>

(* filterBuilder.addHaving *)
addHaving(i, c) ==
    /\ i \in DOMAIN filter
    /\ budget.having > 0
    /\ budget' = [budget EXCEPT !.having = @ - 1]
    /\ filter' = IF c.sql = <<>> THEN filter
                 ELSE [filter EXCEPT ![i].havingClauses = Append(@, c)]
    /\ UNCHANGED <<query, scanvars, findRow, numCPU>>

(* queryBuilder.join *)
join(j) ==
    /\ budget.joins > 0
    /\ budget' = [budget EXCEPT !.joins = @ - 1]
    /\ query' = [query EXCEPT !.joins = add(@, <<j>>)]
    /\ UNCHANGED <<filter, scanvars, findRow, numCPU>>

(* queryBuilder.addFilter *)
addFilter ==
    /\ budget.queries > 0
    /\ budget' = [budget EXCEPT !.queries = @ - 1]
    /\ IF getError(filter, 1)
       THEN query' = [query EXCEPT !.err = TRUE]
       ELSE LET w == generateWhereClauses(filter, 1)
                h == generateHavingClauses(filter, 1)
            IN query' = [query EXCEPT
                   !.whereClauses = IF Len(w.clause) > 0 THEN Append(@, w.clause) ELSE @,
                   !.havingClauses = IF Len(h.clause) > 0 THEN Append(@, h.clause) ELSE @,
                   !.args = @ \o w.args \o h.args,
                   !.joins = add(@, getAllJoins(filter, 1))]
    /\ UNCHANGED <<filter, scanvars, findRow, numCPU>>

(* queryBuilder.executeFind: the query is consumed once *)
executeFind ==
    /\ query.executed = ""
    /\ query' = [query EXCEPT !.executed = IF query.err THEN "err" ELSE "sql"]
    /\ UNCHANGED <<filter, budget, scanvars, findRow, numCPU>>

(* ------------------------------ specification -------------------------- *)
(* catalogs written by a release that stored only the MD5 of a scene and no
   file modification times *)
LegacyPath == <<"v", "a.mp4">>
LegacyScenes ==
    {[id |-> 1, path |-> LegacyPath, checksum |-> MD5FromFilePath(1), oshash |-> 0,
      modTime |-> 0, sizeValid |-> sv, formatValid |-> fv, born |-> -1] :
        sv \in BOOLEAN, fv \in BOOLEAN}
    \cup {[id |-> 1, path |-> LegacyPath, checksum |-> MD5FromFilePath(1),
           oshash |-> OSHashFromFilePath(1), modTime |-> 0, sizeValid |-> TRUE,
           formatValid |-> TRUE, born |-> -1]}
LegacyImagePath == <<"d", "x.jpg">>
LegacyImage == [id |-> 1, path |-> LegacyImagePath, checksum |-> MD5FromFilePath(1),
                modTime |-> 0, born |-> -1]
(* a zip gallery with one image entry *)
LegacyGallery == [id |-> 1, path |-> GZip, checksum |-> MD5FromZip(2), zip |-> TRUE,
                  modTime |-> 0, born |-> -1]
LegacyZipImage == [id |-> 1, path |-> ZipFilename(GZip, EntryNames[1]),
                   checksum |-> MD5FromFilePath(1), modTime |-> 0, born |-> -1]
File1 == [exists |-> TRUE, content |-> 1, mtime |-> 1]

EmptyDb == [scenes |-> {}, images |-> {}, galleries |-> {}, galleryImages |-> {},
            nextScene |-> 1, nextImage |-> 1, nextGallery |-> 1]

(* the settings ConfigureGeneral accepts *)
SceneConfigs(par) ==
    {[calculateMD5 |-> TRUE, fileNamingAlgorithm |-> a,
      createGalleriesFromFolders |-> FALSE, parallelTasks |-> par,
      scanGenerateSprites |-> FALSE, scanGeneratePreviews |-> FALSE] :
        a \in {HashAlgorithmOshash, HashAlgorithmMd5}}
    \cup {[calculateMD5 |-> FALSE, fileNamingAlgorithm |-> HashAlgorithmOshash,
           createGalleriesFromFolders |-> FALSE, parallelTasks |-> par,
           scanGenerateSprites |-> FALSE, scanGeneratePreviews |-> FALSE]}
ImageConfigs(par) ==
    {[calculateMD5 |-> FALSE, fileNamingAlgorithm |-> HashAlgorithmOshash,
      createGalleriesFromFolders |-> f, parallelTasks |-> par,
      scanGenerateSprites |-> FALSE, scanGeneratePreviews |-> FALSE] : f \in BOOLEAN}

(* gen: the values the scan input may give to scanGenerateSprites and
   scanGeneratePreviews; others: the files of no kind the scan is started on *)
InitScan(par, faults, scans, changes, gen, others) ==
    /\ \/ /\ config \in {[c EXCEPT !.scanGenerateSprites = gs,
                                    !.scanGeneratePreviews = gp] :
                           c \in SceneConfigs(par), gs \in gen, gp \in gen}
          /\ \/ /\ db = EmptyDb
                /\ files = [p \in ScenePaths |-> NoFile]
             \/ \E s \in LegacyScenes :
                /\ db = [EmptyDb EXCEPT !.scenes = {s}, !.nextScene = 2]
                /\ files = [p \in ScenePaths |-> IF p = LegacyPath THEN File1 ELSE NoFile]
       \/ /\ config \in ImageConfigs(par)
          /\ \/ /\ db = EmptyDb
                /\ files = [p \in ImageLibrary |-> NoFile]
             \/ /\ db = [EmptyDb EXCEPT !.images = {LegacyImage}, !.nextImage = 2]
                /\ files = [p \in ImageLibrary |->
                              IF p = LegacyImagePath THEN File1 ELSE NoFile]
       \/ /\ config \in {c \in ImageConfigs(par) : ~c.createGalleriesFromFolders}
          /\ \/ /\ db = EmptyDb
                /\ files = [p \in ZipPaths |-> NoFile]
             \/ /\ db = [EmptyDb EXCEPT !.galleries = {LegacyGallery},
                                         !.images = {LegacyZipImage},
                                         !.galleryImages = {<<1, 1>>},
                                         !.nextGallery = 2, !.nextImage = 2]
                /\ files = [p \in ZipPaths |->
                              IF p = GZip THEN [File1 EXCEPT !.content = 2] ELSE NoFile]
       \/ /\ others # {}
          /\ config \in {c \in ImageConfigs(par) : ~c.createGalleriesFromFolders}
          /\ db = EmptyDb
          /\ files = [p \in others |-> NoFile]
    /\ tasks = [t \in Slots |-> Idle]
    /\ screenshots = {}
    /\ thumbs = {}
    /\ budget = [scans |-> scans, changes |-> changes, faults |-> faults]
    /\ hist = [lastDone |-> NoPath, scanned |-> {}, epoch |-> 0,
               started |-> 0, done |-> 0]
    /\ filter = <<NewFilter>>
    /\ query = NewQuery
    /\ findRow = NoRow
    /\ numCPU = 1

InitWith(par, faults, scans, changes) ==
    InitScan(par, faults, scans, changes, {FALSE}, {})

Step(t) ==
    \/ \E p \in DOMAIN files : StartTask(t, p)
    \/ SceneLookup(t)
    \/ SceneSetModTime(t)
    \/ SceneRescan(t)
    \/ SceneFormat(t)
    \/ SceneOSHash(t)
    \/ SceneMD5(t)
    \/ SceneHashLookup(t)
    \/ SceneMigrate(t)
    \/ SceneCreate(t)
    \/ ImageLookup(t)
    \/ ImageSetModTime(t)
    \/ ImageRescan(t)
    \/ ImageHashLookup(t)
    \/ ImageMigrate(t)
    \/ ImageCreate(t)
    \/ ImageAssocZip(t)
    \/ ImageAssocFolder(t)
    \/ GalleryLookup(t)
    \/ GallerySetModTime(t)
    \/ GalleryUpdate(t)
    \/ GalleryWrite(t)
    \/ GalleryRegen(t)
    \/ TaskDone(t)

Env ==
    \/ \E p \in DOMAIN files : \E c \in FileContents(p), m \in Times : WriteFile(p, c, m)
    \/ \E p \in DOMAIN files : DeleteFile(p)
    \/ \E b \in BOOLEAN : ConfigureGeneral(b)

Next == (\E t \in Slots : Step(t)) \/ Env

(* one scan task at a time, a store that never fails *)
Init == InitWith(1, 0, MaxScans, MaxFsOps)
Spec == Init /\ [][Next]_vars

(* up to MaxParallel concurrent scan tasks *)
InitPar == InitWith(MaxParallel, 0, MaxParScans, MaxParFsOps)
SpecPar == InitPar /\ [][Next]_vars

(* one scan task at a time, store calls may fail *)
InitFault == InitWith(1, MaxFaults, MaxFaultScans, MaxFaultFsOps)
SpecFault == InitFault /\ [][Next]_vars

(* ScanTask.Start as a whole: files of every kind and of no kind, scans that
   may ask for sprites and previews, store calls that may fail *)
InitStart == InitScan(1, MaxFaults, MaxStartScans, MaxStartFsOps, BOOLEAN, {NonePath})

StartStep(t) ==
    \/ StartSprite(t)
    \/ StartPreview(t)
    \/ \E k \in {"sprite", "preview"} : SubTaskDone(t, k)

NextStart == Next \/ \E t \in Slots : StartStep(t)

SpecStart == InitStart /\ [][NextStart]_vars

(* the same for scans that ask for both sprites and previews, under the
   scheduling of the Go runtime: a goroutine that can run keeps being
   scheduled, so a running task takes its next step and a started sub-task
   finishes *)
InitLive == InitScan(1, MaxFaults, MaxStartScans, MaxStartFsOps, {TRUE}, {NonePath})

Scheduled == \E t \in Slots : tasks[t].pc # "idle" /\ (Step(t) \/ StartStep(t))

SpecLive == InitLive /\ [][NextStart]_vars /\ WF_vars(Scheduled)

(* a find query under construction: the callers build a filter of up to
   MaxSubFilters nested sub-filters and add it to the query; the scanner is
   idle *)
FilterBudgets ==
    {[where |-> MaxWhere, having |-> 0, joins |-> 0, subFilters |-> MaxSubFilters,
      queries |-> 1],
     [where |-> 1, having |-> MaxHaving, joins |-> 0, subFilters |-> MaxSubFilters,
      queries |-> 1],
     [where |-> 0, having |-> 0, joins |-> MaxJoins, subFilters |-> MaxSubFilters,
      queries |-> 1],
     [where |-> 1, having |-> 0, joins |-> 1, subFilters |-> MaxSubFilters + 1,
      queries |-> 1]}

InitFilter ==
    /\ config \in {c \in ImageConfigs(1) : ~c.createGalleriesFromFolders}
    /\ db = EmptyDb
    /\ files = [p \in {} |-> NoFile]
    /\ tasks = [t \in Slots |-> Idle]
    /\ screenshots = {}
    /\ thumbs = {}
    /\ hist = [lastDone |-> NoPath, scanned |-> {}, epoch |-> 0,
               started |-> 0, done |-> 0]
    /\ budget \in FilterBudgets
    /\ filter = <<NewFilter>>
    /\ query = NewQuery
    /\ findRow = NoRow
    /\ numCPU = 1

NextFilter ==
    \/ \E i \in 1..(MaxSubFilters + 1) : and(i) \/ or(i) \/ not(i)
    \/ \E i \in 1..(MaxSubFilters + 1), c \in WhereInputs : addWhere(i, c)
    \/ \E i \in 1..(MaxSubFilters + 1), c \in HavingInputs : addHaving(i, c)
    \/ \E i \in 1..(MaxSubFilters + 1), j \in JoinInputs : addJoin(i, j)
    \/ \E j \in JoinInputs : join(j)
    \/ addFilter
    \/ executeFind

SpecFilter == InitFilter /\ [][NextFilter]_vars

(* ------------------------------ claims --------------------------------- *)
KindTable(p) ==
    IF p \in ScenePaths THEN db.scenes
    ELSE IF p \in ZipPaths THEN db.galleries
    ELSE db.images

SameKind(p1, p2) ==
    \/ {p1, p2} \subseteq ScenePaths
    \/ {p1, p2} \subseteq ZipPaths
    \/ {p1, p2} \subseteq PlainImagePaths

(* record r of the kind of path p carries a hash of file content c *)
References(r, p, c) ==
    IF p \in ScenePaths
    THEN r.oshash = OSHashFromFilePath(c) \/ r.checksum = MD5FromFilePath(c)
    ELSE IF p \in ZipPaths THEN r.checksum = MD5FromZip(c)
    ELSE r.checksum = MD5FromFilePath(c)

(* p1 and p2 are distinct files of one kind with identical content, both
   reconciled by completed scan tasks since the files last changed, and every
   record at either path or of that content was created since then *)
C1Case(p1, p2) ==
    /\ Running = {}
    /\ p1 # p2 /\ SameKind(p1, p2)
    /\ {p1, p2} \subseteq hist.scanned
    /\ files[p1].exists /\ files[p2].exists
    /\ files[p1].content = files[p2].content
    /\ \A r \in KindTable(p1) :
          r.path \in {p1, p2} \/ References(r, p1, files[p1].content)
             => r.born = hist.epoch

RecordsOf(p) == {r \in KindTable(p) : References(r, p, files[p].content)}

(* C1 as stated: two distinct same-kind paths with identical content and no
   prior record, both reconciled one after the other, leave exactly one
   record of that content in the catalog. *)
C1_OneRecordPerContent ==
    \A p1, p2 \in DOMAIN files :
        C1Case(p1, p2) => Cardinality(RecordsOf(p1)) = 1

(* C1 amended: the same, for scenes, images and those zip galleries that
   contain at least one image entry. *)
C1_OneRecordPerContentWithImages ==
    \A p1, p2 \in DOMAIN files :
        C1Case(p1, p2) /\ (p1 \in ZipPaths => countImagesInZip(p1) > 0)
            => Cardinality(RecordsOf(p1)) = 1

C1_Witness ==
    \E p1, p2 \in DOMAIN files :
        /\ C1Case(p1, p2) /\ p1 \in ZipPaths /\ countImagesInZip(p1) > 0
        /\ Cardinality(RecordsOf(p1)) = 1

(* two records of table tbl hold the same non-empty value in column col *)
SharedHash(tbl, col) ==
    \E r1, r2 \in tbl : r1.id # r2.id /\ r1[col] # 0 /\ r1[col] = r2[col]

(* C2: in every reachable catalog state no two records of the same kind hold
   the same non-empty hash of the same flavor (oshash, or MD5 checksum). *)
C2_NoSharedHash ==
    /\ ~SharedHash(db.scenes, "oshash")
    /\ ~SharedHash(db.scenes, "checksum")
    /\ ~SharedHash(db.images, "checksum")
    /\ ~SharedHash(db.galleries, "checksum")

(* the slots whose scan task has finished and not yet signalled it *)
Finished == {t \in Slots : tasks[t].pc = "done"}

(* the catalog table of the kind of path p, in catalog d *)
TableOf(d, p) ==
    IF p \in ScenePaths THEN d.scenes
    ELSE IF p \in ZipPaths THEN d.galleries
    ELSE d.images

(* the hashes a scan task T computes for a new file at its path, as
   <<column, value>> *)
Computed(T) ==
    LET c == files[T.top].content IN
    IF T.top \in ScenePaths
    THEN {<<"oshash", OSHashFromFilePath(c)>>}
         \cup (IF T.fileNamingAlgorithm = HashAlgorithmMd5 \/ T.calculateMD5
               THEN {<<"checksum", MD5FromFilePath(c)>>} ELSE {})
    ELSE IF T.top \in ZipPaths THEN {<<"checksum", MD5FromZip(c)>>}
    ELSE {<<"checksum", MD5FromFilePath(c)>>}

Matches(r, T) == \E h \in Computed(T) : r[h[1]] = h[2]

StoredFileExists(r, p) ==
    IF p \in PlainImagePaths THEN ImageFileExists(r.path) ELSE FileExists(r.path)

(* a finished scan task T for a file B = T.top: before it ran, r was a record
   at another path A whose file is gone, r carries a hash of B's content, and
   no record had path B *)
C3Case(T, r) ==
    /\ T.pc = "done"
    /\ r \in TableOf(T.pre, T.top)
    /\ r.path # T.top
    /\ ~StoredFileExists(r, T.top)
    /\ References(r, T.top, files[T.top].content)
    /\ FindByPath(TableOf(T.pre, T.top), T.top) = {}

(* the task changed r's path to B and nothing else of r, and created no
   record of that kind *)
Moved(T, r) ==
    /\ Patch(r, [path |-> T.top]) \in TableOf(db, T.top)
    /\ {x.id : x \in TableOf(db, T.top)} = {x.id : x \in TableOf(T.pre, T.top)}

(* C3 as stated: a record at path A with hash H, the file at A gone and a file
   of identical content at B with no record: the scan task on B changes that
   record's path to B, creates no record, and keeps its id and hashes. *)
C3_PathMigration ==
    \A t \in Finished : \A r \in TableOf(tasks[t].pre, tasks[t].top) :
        C3Case(tasks[t], r) => Moved(tasks[t], r)

(* C3 amended: the same, when H is one of the hashes the task computes for B
   (the oshash; the MD5 of a scene only when calculateMD5 is set or MD5 names
   the files) and no other record carries a hash computed for B. *)
C3_PathMigrationByComputedHash ==
    \A t \in Finished : \A r \in TableOf(tasks[t].pre, tasks[t].top) :
        /\ C3Case(tasks[t], r)
        /\ \A x \in TableOf(tasks[t].pre, tasks[t].top) :
              Matches(x, tasks[t]) <=> x = r
        => Moved(tasks[t], r)

C3_Witness ==
    \E t \in Finished : \E r \in TableOf(tasks[t].pre, tasks[t].top) :
        /\ C3Case(tasks[t], r)
        /\ \A x \in TableOf(tasks[t].pre, tasks[t].top) :
              Matches(x, tasks[t]) <=> x = r
        /\ "path" \in tasks[t].did
        /\ Moved(tasks[t], r)

(* C4: a scan task for path P that runs right after a scan task for P has
   completed, the file unchanged in between, performs no catalog write. *)
C4_SecondRunWritesNothing ==
    \A t \in Slots :
        tasks[t].pc = "done" /\ tasks[t].rerun => tasks[t].writes = 0

(* C5: after scan tasks for two distinct paths of identical content, with no
   record of that content before, have run (concurrently, their transactions
   interleaved), the catalog holds at most one record of that content. *)
C5_ConcurrentAtMostOneRecord ==
    \A p1, p2 \in DOMAIN files :
        C1Case(p1, p2) => Cardinality(RecordsOf(p1)) <= 1

(* two records of table tbl have the same path *)
SharedPath(tbl) == \E r1, r2 \in tbl : r1.id # r2.id /\ r1.path = r2.path

(* C6: in every reachable catalog state, also with concurrent scan tasks for
   one path, no two records of the same kind have the same path. *)
C6_UniquePath ==
    ~SharedPath(db.scenes) /\ ~SharedPath(db.images) /\ ~SharedPath(db.galleries)

(* the identity hash that names the generated files of a scene file *)
IdentityHash(c) ==
    IF config.fileNamingAlgorithm = HashAlgorithmMd5 THEN MD5FromFilePath(c)
    ELSE OSHashFromFilePath(c)

(* a finished scan task T rescanned the scene record r0 of its path *)
C7Case(T, r0) ==
    /\ T.pc = "done" /\ T.top \in ScenePaths
    /\ "rescan" \in T.did
    /\ r0 \in FindByPath(T.pre.scenes, T.top)

(* C7: after a scan task has rescanned a scene whose file changed (identity
   hash H1 before, H2 the hash of the file now) the record's stored identity
   hash is H2, MigrateHash(H1, H2) was invoked exactly when H1 differs from
   H2, and generated files exist under H2. *)
C7_RescanMigratesHash ==
    \A t \in Finished : \A r0 \in tasks[t].pre.scenes :
        C7Case(tasks[t], r0) =>
            LET T == tasks[t]
                H1 == GetHash(r0, config.fileNamingAlgorithm)
                H2 == IdentityHash(files[T.top].content)
            IN /\ GetHash(Find(db.scenes, r0.id), config.fileNamingAlgorithm) = H2
               /\ (H1 # H2 => T.migrated = <<H1, H2>>)
               /\ (H1 = H2 => T.migrated = <<>>)
               /\ H2 \in screenshots

C7_Witness ==
    \E t \in Finished : \E r0 \in tasks[t].pre.scenes :
        /\ C7Case(tasks[t], r0)
        /\ GetHash(r0, config.fileNamingAlgorithm) # 0
        /\ tasks[t].migrated = <<GetHash(r0, config.fileNamingAlgorithm),
                                 IdentityHash(files[tasks[t].top].content)>>
        /\ IdentityHash(files[tasks[t].top].content) \in screenshots

(* C8: a scan task whose candidate has no record by path and whose hash
   matches a record with an existing file performs no catalog write for that
   candidate. *)
C8_DuplicateWritesNothing ==
    \A t \in Slots : tasks[t].pc # "idle" => ~tasks[t].dupWrote

(* the backfill step of task t finds its freshly computed hash on a record *)
OSHashClashes(t) ==
    /\ tasks[t].pc = "sceneOSHash"
    /\ FindByOSHash(db.scenes, OSHashFromFilePath(files[tasks[t].path].content)) # {}
MD5Clashes(t) ==
    /\ tasks[t].pc = "sceneMD5"
    /\ FindByChecksum(db.scenes, MD5FromFilePath(files[tasks[t].path].content)) # {}

(* C9: when an existing scene lacks an oshash (or an MD5 that calculateMD5
   asks for) and the freshly computed hash is the hash of another scene
   record, the backfill step ends the task with an error and leaves the
   catalog as it was. *)
C9_BackfillClashWritesNothing ==
    [][\A t \in Slots :
          (OSHashClashes(t) \/ MD5Clashes(t)) /\ tasks'[t] # tasks[t]
              => /\ db' = db
                 /\ tasks'[t].pc = "done"
                 /\ tasks'[t].err = "collision"
                 /\ tasks'[t].writes = tasks[t].writes]_vars

C9_Witness ==
    \E t \in Slots :
        /\ tasks[t].pc = "done" /\ tasks[t].err = "collision"
        /\ \E r \in db.scenes :
              /\ r.id = tasks[t].s.id
              /\ r.oshash = 0 \/ r.checksum = 0
        /\ \E r \in db.scenes :
              /\ r.id # tasks[t].s.id
              /\ \/ r.oshash = OSHashFromFilePath(files[tasks[t].path].content)
                 \/ r.checksum = MD5FromFilePath(files[tasks[t].path].content)

(* C10: once a store call made for a candidate has returned an error, the
   scan task makes no later write for that candidate. *)
C10_NoWriteAfterStoreError ==
    \A t \in Slots : tasks[t].pc # "idle" => ~tasks[t].writeAfterErr

(* ------------------------------ Start ---------------------------------- *)
(* C11: every Start, whatever the kind of its file and whatever store error
   its scan function meets, signals Done to the dispatcher: never more often
   than tasks were started, once for every task that has returned, and every
   started task gets there. *)
C11_StartSignalsDoneOnce ==
    /\ [](hist.done + Cardinality(Running) = hist.started)
    /\ (Running # {}) ~> (hist.done = hist.started)

(* both scans of a batch have signalled Done, the last one after a store
   error *)
C11_Witness ==
    /\ Running = {}
    /\ hist.done = MaxStartScans
    /\ budget.faults = 0
    /\ hist.lastDone \in ScenePaths \cup PlainImagePaths \cup ZipPaths
    /\ hist.lastDone \notin hist.scanned

Range(q) == {q[i] : i \in DOMAIN q}

(* C12: a Start signals Done only when every sub-task it started has
   finished. *)
C12_DoneAfterSubTasks ==
    [][\A t \in Slots :
         (tasks[t].pc # "idle" /\ tasks'[t].pc = "idle")
         => /\ GenerateBlock(tasks[t]) \subseteq tasks[t].spawned
            /\ tasks[t].spawned \subseteq Range(tasks[t].finished)]_vars

(* Start is about to signal Done after both sub-tasks, the preview having
   finished before the sprite that was started first *)
C12_Witness ==
    \E t \in Finished :
        /\ tasks[t].spawned = {"sprite", "preview"}
        /\ tasks[t].finished = <<"preview", "sprite">>
        /\ ENABLED TaskDone(t)

(* ------------------------------ zip galleries -------------------------- *)
Ids(tbl) == {r.id : r \in tbl}

(* the zip gallery records a finished scan of a zip has created *)
CreatedGalleries(T) == {g \in db.galleries : g.zip /\ g.id \notin Ids(T.pre.galleries)}

(* no gallery record for the zip before the scan: none at its path, none with
   its checksum *)
NoPriorGallery(T) ==
    \A g \in T.pre.galleries :
        g.path # T.top /\ g.checksum # MD5FromZip(files[T.top].content)

(* C13: a scan creates a zip gallery record only for a zip with at least
   one image entry, and the scan of a zip without image entries that has no
   prior record leaves the catalog as it was. *)
C13_NoGalleryWithoutImages ==
    \A t \in Finished :
        LET T == tasks[t] IN
        T.top \in ZipPaths =>
            /\ CreatedGalleries(T) # {} => countImagesInZip(T.top) > 0
            /\ countImagesInZip(T.top) = 0 /\ NoPriorGallery(T) => db = T.pre

(* the scan of a zip without image entries and without a prior record has
   looked the checksum up and returned *)
C13_Witness ==
    \E t \in Finished :
        LET T == tasks[t] IN
        /\ T.top \in ZipPaths
        /\ countImagesInZip(T.top) = 0
        /\ NoPriorGallery(T)
        /\ T.checksum = MD5FromZip(files[T.top].content)
        /\ T.pre.galleries # {}

(* the image entries of the zip a finished task has scanned, their paths and
   their checksums *)
Entries(T) == ZipEntries(files[T.top].content)
EntryPaths(T) == {ZipFilename(T.top, Entries(T)[i].name) : i \in DOMAIN Entries(T)}
EntrySums(T) == {MD5FromFilePath(Entries(T)[i].content) : i \in DOMAIN Entries(T)}
DistinctEntries(T) ==
    \A i, j \in DOMAIN Entries(T) :
        i # j => Entries(T)[i].content # Entries(T)[j].content

(* no image record for an entry before the scan: none at its path, none with
   its checksum *)
NoPriorImages(T) ==
    \A i \in T.pre.images : i.path \notin EntryPaths(T) /\ i.checksum \notin EntrySums(T)

FirstZipScan(T) ==
    /\ T.top \in ZipPaths
    /\ countImagesInZip(T.top) >= 1
    /\ DistinctEntries(T)
    /\ NoPriorGallery(T)
    /\ NoPriorImages(T)

NewImages(T) == {i \in db.images : i.id \notin Ids(T.pre.images)}

(* C14: the first scan of a zip with k >= 1 image entries of pairwise
   distinct content creates one gallery record with Zip = true at the zip's
   path and k image records, one at each entry's path, every one associated
   with that gallery. *)
C14_FirstZipScan ==
    \A t \in Finished :
        LET T == tasks[t] IN
        FirstZipScan(T) =>
            /\ Cardinality(CreatedGalleries(T)) = 1
            /\ \A g \in CreatedGalleries(T) :
                /\ g.path = T.top
                /\ {h \in db.galleries : h.path = T.top} = {g}
                /\ Cardinality(NewImages(T)) = countImagesInZip(T.top)
                /\ {i.path : i \in NewImages(T)} = EntryPaths(T)
                /\ {i.checksum : i \in NewImages(T)} = EntrySums(T)
                /\ \A i \in NewImages(T) : <<g.id, i.id>> \in db.galleryImages

(* a first scan of a zip with two image entries has returned *)
C14_Witness ==
    \E t \in Finished :
        /\ FirstZipScan(tasks[t])
        /\ countImagesInZip(tasks[t].top) = 2
        /\ Cardinality(NewImages(tasks[t])) = 2

(* the gallery record of the zip before the scan *)
PriorGalleries(T) == {g \in T.pre.galleries : g.path = T.top}

(* the image records that were associated with gallery g before the scan and
   sit at the paths of the zip's entries *)
AssociatedImages(T, g) ==
    {i \in T.pre.images : i.path \in EntryPaths(T) /\ <<g.id, i.id>> \in T.pre.galleryImages}

(* a zip gallery whose record exists with the zip's modification time and
   whose k > 0 image entries are all associated with it *)
SettledZip(T, g) ==
    /\ T.top \in ZipPaths
    /\ g \in PriorGalleries(T)
    /\ g.modTime = files[T.top].mtime
    /\ countImagesInZip(T.top) > 0
    /\ {i.path : i \in AssociatedImages(T, g)} = EntryPaths(T)

(* C15: the scan of a settled zip gallery writes nothing to the catalog, and
   after it every image of the gallery has its thumbnail. *)
C15_SettledZipRescan ==
    \A t \in Finished :
        LET T == tasks[t] IN
        \A g \in T.pre.galleries :
            SettledZip(T, g) =>
                /\ db = T.pre
                /\ \A i \in AssociatedImages(T, g) : i.checksum \in thumbs

(* ------------------------------ filter clauses ------------------------- *)
(* the truth of the columns' conditions for one row *)
Atoms == {"p", "q", "r"}
Valuations == [Atoms -> BOOLEAN]

(* the words of a condition's bound arguments *)
RECURSIVE SkipArgs(_)
SkipArgs(ts) == IF ts # <<>> /\ Head(ts) = "?" THEN SkipArgs(Tail(ts)) ELSE ts

(* SQL reads a boolean expression with NOT binding tighter than AND and AND
   tighter than OR: the value of the expression at the front of the words ts
   and the words after it *)
RECURSIVE ParseOr(_, _), ParseOrTail(_, _, _), ParseAnd(_, _), ParseAndTail(_, _, _), ParseNot(_, _)
ParseNot(ts, val) ==
    IF Head(ts) = "NOT"
    THEN LET r == ParseNot(Tail(ts), val) IN [v |-> ~r.v, rest |-> r.rest]
    ELSE IF Head(ts) = "("
    THEN LET r == ParseOr(Tail(ts), val) IN [v |-> r.v, rest |-> Tail(r.rest)]
    ELSE [v |-> val[Head(ts)], rest |-> SkipArgs(Tail(ts))]
ParseAndTail(l, ts, val) ==
    IF ts # <<>> /\ Head(ts) = "AND"
    THEN LET r == ParseNot(Tail(ts), val) IN ParseAndTail(l /\ r.v, r.rest, val)
    ELSE [v |-> l, rest |-> ts]
ParseAnd(ts, val) ==
    LET r == ParseNot(ts, val) IN ParseAndTail(r.v, r.rest, val)
ParseOrTail(l, ts, val) ==
    IF ts # <<>> /\ Head(ts) = "OR"
    THEN LET r == ParseAnd(Tail(ts), val) IN ParseOrTail(l \/ r.v, r.rest, val)
    ELSE [v |-> l, rest |-> ts]
ParseOr(ts, val) ==
    LET r == ParseAnd(ts, val) IN ParseOrTail(r.v, r.rest, val)

(* whether a row is selected: "all" where nothing restricts the rows *)
Truth(b) == IF b THEN "true" ELSE "false"
Not(x) == IF x = "true" THEN "false" ELSE "true"

(* the rows a clause selects; no clause selects every row *)
SqlTruth(clause, val) == IF clause = <<>> THEN "all" ELSE Truth(ParseOr(clause, val).v)

(* the meaning of filter f[i]: its own clauses ANDed, combined by its
   operator with the meaning of its whole sub-filter; a filter without
   clauses restricts nothing *)
RECURSIVE Meaning(_, _, _)
Meaning(f, i, val) ==
    LET own == IF f[i].whereClauses = <<>> THEN "all"
               ELSE Truth(\A k \in DOMAIN f[i].whereClauses :
                              val[f[i].whereClauses[k].sql[1]])
        sub == IF i < Len(f) THEN Meaning(f, i + 1, val) ELSE "all"
        op == f[i].subFilterOp
    IN IF sub = "all" THEN own
       ELSE IF own = "all" THEN (IF op = notOp THEN Not(sub) ELSE sub)
       ELSE IF op = andOp THEN Truth(own = "true" /\ sub = "true")
       ELSE IF op = orOp THEN Truth(own = "true" \/ sub = "true")
       ELSE Truth(own = "true" /\ sub = "false")

(* C16: the WHERE clause generated for a filter, read with SQL precedence,
   selects the rows the filter means. *)
C16_WhereMeansFilter ==
    \A val \in Valuations :
        SqlTruth(generateWhereClauses(filter, 1).clause, val) = Meaning(filter, 1, val)

(* the SQL texts of a filter's own clauses, and the clause of its sub-filter *)
OwnWhere(i) == [k \in DOMAIN filter[i].whereClauses |-> filter[i].whereClauses[k].sql]
SubWhere(i) == IF i < Len(filter) THEN generateWhereClauses(filter, i + 1).clause ELSE <<>>
BinaryOps == {"AND", "OR"}

(* C17: the WHERE clause of a filter never begins with a binary operator:
   without own clauses it is the sub-filter's clause C, behind NOT for the
   not operator; with own clauses it is the parenthesised AND of them, the
   operator, and C. *)
C17_WhereNoLeadingOperator ==
    \A i \in DOMAIN filter :
        LET res == generateWhereClauses(filter, i).clause
            C == SubWhere(i)
            op == filter[i].subFilterOp
        IN /\ res # <<>> => Head(res) \notin BinaryOps
           /\ C # <<>> /\ OwnWhere(i) = <<>> =>
                  res = (IF op = notOp THEN <<"NOT">> \o C ELSE C)
           /\ C # <<>> /\ OwnWhere(i) # <<>> =>
                  res = <<"(">> \o Join(OwnWhere(i), <<"AND">>) \o <<")">> \o op \o C

(* two filters without own clauses, a not above an or, over a sub-filter with
   two clauses *)
C17_Witness ==
    /\ Len(filter) = 3
    /\ OwnWhere(1) = <<>> /\ filter[1].subFilterOp = notOp
    /\ OwnWhere(2) = <<>> /\ filter[2].subFilterOp = orOp
    /\ Len(OwnWhere(3)) = 2

OwnHaving(i) == [k \in DOMAIN filter[i].havingClauses |-> filter[i].havingClauses[k].sql]
SubHaving(i) == IF i < Len(filter) THEN generateHavingClauses(filter, i + 1).clause ELSE <<>>

(* C18: the HAVING clause of a filter is combined by the rule of the WHERE
   clause and never begins with a binary operator. *)
C18_HavingNoLeadingOperator ==
    \A i \in DOMAIN filter :
        LET res == generateHavingClauses(filter, i).clause
            C == SubHaving(i)
            op == filter[i].subFilterOp
        IN /\ res # <<>> => Head(res) \notin BinaryOps
           /\ C # <<>> /\ OwnHaving(i) = <<>> =>
                  res = (IF op = notOp THEN <<"NOT">> \o C ELSE C)
           /\ C # <<>> /\ OwnHaving(i) # <<>> =>
                  res = <<"(">> \o Join(OwnHaving(i), <<"AND">>) \o <<")">> \o op \o C

(* the arguments the '?' of a SQL text stand for, from left to right: the
   n-th '?' behind column col is <<col, n>> *)
RECURSIVE Placeholders(_, _, _)
Placeholders(ts, col, n) ==
    IF ts = <<>> THEN <<>>
    ELSE IF Head(ts) = "?"
    THEN << <<col, n + 1>> >> \o Placeholders(Tail(ts), col, n + 1)
    ELSE Placeholders(Tail(ts), Head(ts), 0)

(* C19: the argument list generated with a WHERE or HAVING clause holds one
   argument for each '?' of the clause, in the order of the '?'. *)
C19_ArgsMatchPlaceholders ==
    \A i \in DOMAIN filter :
        LET w == generateWhereClauses(filter, i)
            h == generateHavingClauses(filter, i)
        IN /\ w.args = Placeholders(w.clause, "", 0)
           /\ h.args = Placeholders(h.clause, "", 0)

(* a filter and its sub-filter both contribute arguments to the WHERE
   clause *)
C19_Witness ==
    /\ Len(filter) >= 2
    /\ andClauses(filter[1].whereClauses).args # <<>>
    /\ generateWhereClauses(filter, 2).args # <<>>
    /\ Len(generateWhereClauses(filter, 1).args) >= 3

Aliases(js) == {alias(js[k]) : k \in DOMAIN js}
NoTwoWithSameAlias(js) ==
    \A a, b \in DOMAIN js : a # b => alias(js[a]) # alias(js[b])

(* C20: no join list of a filter, of the filter and its sub-filters or of the
   query holds two joins of the same alias, and adding a join whose alias is
   present leaves a join list as it is. *)
C20_JoinsDeduplicated ==
    /\ \A i \in DOMAIN filter :
           /\ NoTwoWithSameAlias(filter[i].joins)
           /\ NoTwoWithSameAlias(getAllJoins(filter, i))
           /\ \A j \in JoinInputs :
                  alias(j) \in Aliases(filter[i].joins) =>
                      add(filter[i].joins, <<j>>) = filter[i].joins
    /\ NoTwoWithSameAlias(query.joins)
    /\ NoTwoWithSameAlias(add(query.joins, getAllJoins(filter, 1)))
    /\ \A j \in JoinInputs :
           alias(j) \in Aliases(query.joins) =>
               add(query.joins, <<j>>) = query.joins

(* a filter and its sub-filter asked for a join of the same alias and the
   filter was added to the query *)
C20_Witness ==
    /\ Len(filter) >= 2
    /\ Aliases(filter[1].joins) \cap Aliases(filter[2].joins) # {}
    /\ budget.queries = 0
    /\ Len(query.joins) >= 2

(* the aliases asked for by filter[i] and all its sub-filters *)
RequestedAliases(i) == UNION {Aliases(filter[k].joins) : k \in i..Len(filter)}

(* C21: getAllJoins holds a join for every alias a filter or one of its
   sub-filters asked for, and so does the join list of the query once the
   filter is added. *)
C21_AllJoinsComplete ==
    /\ \A i \in DOMAIN filter :
           Aliases(getAllJoins(filter, i)) = RequestedAliases(i)
    /\ Aliases(add(query.joins, getAllJoins(filter, 1)))
           = Aliases(query.joins) \cup RequestedAliases(1)

(* C22: and, or and not on a filter that has a sub-filter set the error of
   the filter and leave the sub-filter and its operator as they are; the
   filter tree then reports an error. *)
C22_SubFilterSetOnce ==
    [][\A i \in DOMAIN filter :
           (i < Len(filter) /\ (and(i) \/ or(i) \/ not(i))) =>
               /\ filter'[i].err
               /\ filter' = [filter EXCEPT ![i].err = TRUE]
               /\ getError(filter', 1)]_vars

(* a second sub-filter was refused on a filter whose sub-filter has a where
   clause and was attached by or *)
C22_Witness ==
    /\ Len(filter) >= 2
    /\ filter[1].err
    /\ filter[1].subFilterOp = orOp
    /\ filter[2].whereClauses # <<>>

(* C23: addFilter of a filter tree with an error on any of its filters sets
   the error of the query and adds no clause, argument or join; the error of
   a query stays, and executeFind of a query with an error returns the error
   and runs no SQL. *)
C23_ErrorStopsQuery ==
    [][/\ (addFilter /\ \E k \in DOMAIN filter : filter[k].err) =>
              query' = [query EXCEPT !.err = TRUE]
       /\ query.err => query'.err
       /\ (executeFind /\ query.err) => query'.executed = "err"]_vars

(* a sub-filter carried the error, the query took it over, later calls
   followed and executeFind returned the error *)
C23_Witness ==
    /\ Len(filter) >= 2
    /\ ~filter[1].err
    /\ filter[2].err
    /\ \E k \in DOMAIN filter : filter[k].whereClauses # <<>>
    /\ query.err
    /\ query.joins # <<>>
    /\ query.whereClauses = <<>>
    /\ query.executed = "err"

(* --------------------------- criterion handlers ------------------------ *)
(* models.CriterionModifier *)
CriterionModifierEquals == "EQUALS"
CriterionModifierNotEquals == "NOT_EQUALS"
CriterionModifierIsNull == "IS_NULL"
CriterionModifierNotNull == "NOT_NULL"
CriterionModifierIncludesAll == "INCLUDES_ALL"
CriterionModifierIncludes == "INCLUDES"
CriterionModifierExcludes == "EXCLUDES"
CriterionModifierMatchesRegex == "MATCHES_REGEX"
CriterionModifierNotMatchesRegex == "NOT_MATCHES_REGEX"

(* strconv.Itoa: the decimal digits of a natural number *)
Digit(d) == <<"0", "1", "2", "3", "4", "5", "6", "7", "8", "9">>[d + 1]
RECURSIVE Itoa(_)
Itoa(n) == IF n < 10 THEN <<Digit(n)>> ELSE Itoa(n \div 10) \o <<Digit(n % 10)>>

(* "table.column" *)
Col(table, column) == <<table, ".", column>>

(* getInBinding: "(?, ?, ... )" with length placeholders *)
getInBinding(length) ==
    <<"(">> \o Join([k \in 1..length |-> <<"?">>], <<",">>) \o <<")">>

(* getSimpleCriterionClause *)
getSimpleCriterionClause(criterionModifier, rhs) ==
    CASE criterionModifier = CriterionModifierEquals ->
             [clause |-> <<"=">> \o rhs, count |-> 1]
      [] criterionModifier = CriterionModifierNotEquals ->
             [clause |-> <<"!=">> \o rhs, count |-> 1]
      [] criterionModifier = "GREATER_THAN" ->
             [clause |-> <<">">> \o rhs, count |-> 1]
      [] criterionModifier = "LESS_THAN" ->
             [clause |-> <<"<">> \o rhs, count |-> 1]
      [] criterionModifier = CriterionModifierIsNull ->
             [clause |-> <<"IS", "NULL">>, count |-> 0]
      [] criterionModifier = CriterionModifierNotNull ->
             [clause |-> <<"IS", "NOT", "NULL">>, count |-> 0]
      [] OTHER -> [clause |-> <<"=", "?">>, count |-> 1]

(* the EXCLUDES clause written as NOT IN on the joined table *)
getMultiCriterionClauseNotIn(m, criterion) ==
    [where |-> Col(m.foreignTable, "id") \o <<"NOT", "IN">>
                   \o getInBinding(Len(criterion.Value)),
     having |-> <<>>]

(* getMultiCriterionClause: the where clause and the having clause *)
getMultiCriterionClause(m, criterion) ==
    IF criterion.Modifier = CriterionModifierIncludes
    THEN [where |-> Col(m.foreignTable, "id") \o <<"IN">>
                        \o getInBinding(Len(criterion.Value)),
          having |-> <<>>]
    ELSE IF criterion.Modifier = CriterionModifierIncludesAll
    THEN [where |-> Col(m.foreignTable, "id") \o <<"IN">>
                        \o getInBinding(Len(criterion.Value)),
          having |-> <<"count", "(", "distinct">> \o Col(m.foreignTable, "id")
                         \o <<")", "IS">> \o Itoa(Len(criterion.Value))]
    ELSE IF criterion.Modifier = CriterionModifierExcludes
    THEN IF m.joinTable # ""
         THEN [where |-> <<"not", "exists", "(", "select">>
                             \o Col(m.joinTable, m.primaryFK)
                             \o <<"from", m.joinTable, "where">>
                             \o Col(m.joinTable, m.primaryFK) \o <<"=">>
                             \o Col(m.primaryTable, "id") \o <<"and">>
                             \o Col(m.joinTable, m.foreignFK) \o <<"in">>
                             \o getInBinding(Len(criterion.Value)) \o <<")">>,
               having |-> <<>>]
         ELSE [where |-> <<"not", "exists", "(", "select">> \o Col("s", "id")
                             \o <<"from", m.primaryTable, "as", "s", "where">>
                             \o Col("s", "id") \o <<"=">>
                             \o Col(m.primaryTable, "id") \o <<"and">>
                             \o Col("s", m.foreignFK) \o <<"in">>
                             \o getInBinding(Len(criterion.Value)) \o <<")">>,
               having |-> <<>>]
    ELSE [where |-> <<>>, having |-> <<>>]

(* filterBuilder.addWhere, addHaving, setError and joins.add on one filter *)
withWhere(f, sql, args) ==
    IF sql = <<>> THEN f
    ELSE [f EXCEPT !.whereClauses = Append(@, makeClause(sql, args))]
withHaving(f, sql, args) ==
    IF sql = <<>> THEN f
    ELSE [f EXCEPT !.havingClauses = Append(@, makeClause(sql, args))]
withJoins(f, js) == [f EXCEPT !.joins = add(@, js)]
setError(f) == [f EXCEPT !.err = TRUE]

(* the multiCriterionHandlerBuilders of the scene query: tags, through the
   join table scenes_tags, and the studio, a column of the scene itself *)
TagsBuilder ==
    [primaryTable |-> "scenes", foreignTable |-> "tags",
     joinTable |-> "scenes_tags", primaryFK |-> "scene_id",
     foreignFK |-> "tag_id",
     addJoins |-> <<[table |-> "scenes_tags", as |-> "tags_join", onClause |-> "on5"],
                    [table |-> "tags", as |-> "", onClause |-> "on6"]>>]
StudioBuilder ==
    [primaryTable |-> "scenes", foreignTable |-> "studio",
     joinTable |-> "", primaryFK |-> "", foreignFK |-> "studio_id",
     addJoins |-> <<[table |-> "studios", as |-> "studio", onClause |-> "on7"]>>]

(* multiCriterionHandlerBuilder.handler applied to filter f *)
multiCriterionHandler(f, m, criterion) ==
    IF criterion.Modifier # "" /\ Len(criterion.Value) > 0
    THEN LET args == criterion.Value
             c == getMultiCriterionClause(m, criterion)
         IN withHaving(withWhere(withJoins(f, m.addJoins), c.where, args),
                       c.having, <<>>)
    ELSE f

(* regexp.Compile succeeds: here, the parentheses of the pattern match *)
RECURSIVE Depth(_, _)
Depth(pattern, open) ==
    IF pattern = <<>> THEN open
    ELSE IF Head(pattern) = "(" THEN Depth(Tail(pattern), open + 1)
    ELSE IF Head(pattern) = ")"
    THEN IF open = 0 THEN -1 ELSE Depth(Tail(pattern), open - 1)
    ELSE Depth(Tail(pattern), open)
Compiles(pattern) == Depth(pattern, 0) = 0

(* CriterionModifier.IsValid *)
ValidModifiers ==
    {CriterionModifierEquals, CriterionModifierNotEquals, "GREATER_THAN",
     "LESS_THAN", CriterionModifierIsNull, CriterionModifierNotNull,
     CriterionModifierIncludesAll, CriterionModifierIncludes,
     CriterionModifierExcludes, CriterionModifierMatchesRegex,
     CriterionModifierNotMatchesRegex}

(* getSearchBinding for one column and a value of one word without quotes *)
getSearchBinding(column, q, not_) ==
    [clause |-> <<"(">> \o column \o (IF not_ THEN <<"NOT">> ELSE <<>>)
                    \o <<"LIKE", "?", ")">>,
     args |-> << <<"%">> \o q \o <<"%">> >>]

(* a regexp criterion that binds the pattern without compiling it *)
regexpClauseUnchecked(f, c, column, op) ==
    withWhere(f, column \o op \o <<"?">>, <<c.Value>>)

(* the two regexp cases of stringCriterionHandler *)
regexpClause(f, c, column, op) ==
    IF ~Compiles(c.Value) THEN setError(f)
    ELSE withWhere(f, column \o op \o <<"?">>, <<c.Value>>)

(* stringCriterionHandler applied to filter f; a nil criterion has the
   modifier "" *)
stringCriterionHandler(f, c, column) ==
    IF c.Modifier \notin ValidModifiers THEN f
    ELSE CASE c.Modifier = CriterionModifierIncludes ->
                  LET b == getSearchBinding(column, c.Value, FALSE)
                  IN withWhere(f, b.clause, b.args)
           [] c.Modifier = CriterionModifierExcludes ->
                  LET b == getSearchBinding(column, c.Value, TRUE)
                  IN withWhere(f, b.clause, b.args)
           [] c.Modifier = CriterionModifierEquals ->
                  withWhere(f, column \o <<"LIKE", "?">>, <<c.Value>>)
           [] c.Modifier = CriterionModifierNotEquals ->
                  withWhere(f, column \o <<"NOT", "LIKE", "?">>, <<c.Value>>)
           [] c.Modifier = CriterionModifierMatchesRegex ->
                  regexpClause(f, c, column, <<"regexp">>)
           [] c.Modifier = CriterionModifierNotMatchesRegex ->
                  regexpClause(f, c, column, <<"NOT", "regexp">>)
           [] OTHER ->
                  LET s == getSimpleCriterionClause(c.Modifier, <<"?">>)
                  IN IF s.count = 1
                     THEN withWhere(f, column \o s.clause, <<c.Value>>)
                     ELSE withWhere(f, column \o s.clause, <<>>)

(* queryBuilder.addWhere of one clause with queryBuilder.addArg *)
qbWhere(q, clause, args) ==
    [q EXCEPT !.whereClauses = IF Len(clause) > 0 THEN Append(@, clause) ELSE @,
              !.args = @ \o args]

(* the two regexp cases of handleStringCriterionInput *)
qbRegexpClause(q, c, column, op) ==
    IF ~Compiles(c.Value) THEN [q EXCEPT !.err = TRUE]
    ELSE qbWhere(q, column \o op \o <<"?">>, <<c.Value>>)

(* queryBuilder.handleStringCriterionInput applied to query q *)
qbStringCriterion(q, c, column) ==
    IF c.Modifier \notin ValidModifiers THEN q
    ELSE CASE c.Modifier = CriterionModifierIncludes ->
                  LET b == getSearchBinding(column, c.Value, FALSE)
                  IN qbWhere(q, b.clause, b.args)
           [] c.Modifier = CriterionModifierExcludes ->
                  LET b == getSearchBinding(column, c.Value, TRUE)
                  IN qbWhere(q, b.clause, b.args)
           [] c.Modifier = CriterionModifierEquals ->
                  qbWhere(q, column \o <<"LIKE", "?">>, <<c.Value>>)
           [] c.Modifier = CriterionModifierNotEquals ->
                  qbWhere(q, column \o <<"NOT", "LIKE", "?">>, <<c.Value>>)
           [] c.Modifier = CriterionModifierMatchesRegex ->
                  qbRegexpClause(q, c, column, <<"regexp">>)
           [] c.Modifier = CriterionModifierNotMatchesRegex ->
                  qbRegexpClause(q, c, column, <<"NOT", "regexp">>)
           [] c.Modifier = CriterionModifierIsNull ->
                  qbWhere(q, <<"(">> \o column \o <<"IS", "NULL", "OR", "TRIM", "(">>
                                 \o column \o <<")", "=", "''", ")">>, <<>>)
           [] c.Modifier = CriterionModifierNotNull ->
                  qbWhere(q, <<"(">> \o column
                                 \o <<"IS", "NOT", "NULL", "AND", "TRIM", "(">>
                                 \o column \o <<")", "!=", "''", ")">>, <<>>)
           [] OTHER ->
                  LET s == getSimpleCriterionClause(c.Modifier, <<"?">>)
                  IN qbWhere(q, column \o s.clause,
                             IF s.count = 1 THEN <<c.Value>> ELSE <<>>)

(* filterBuilder.handleCriterion with a multi-criterion handler *)
handleMultiCriterion(i, m, criterion) ==
    /\ i \in DOMAIN filter
    /\ budget.criteria > 0
    /\ budget' = [budget EXCEPT !.criteria = @ - 1]
    /\ filter' = [filter EXCEPT ![i] = multiCriterionHandler(@, m, criterion)]
    /\ UNCHANGED <<query, scanvars, findRow, numCPU>>

(* the column of the string criteria *)
TitleColumn == Col("scenes", "title")

(* filterBuilder.handleCriterion with a string criterion handler *)
handleStringCriterion(i, c) ==
    /\ i \in DOMAIN filter
    /\ budget.criteria > 0
    /\ budget' = [budget EXCEPT !.criteria = @ - 1]
    /\ filter' = [filter EXCEPT ![i] = stringCriterionHandler(@, c, TitleColumn)]
    /\ UNCHANGED <<query, scanvars, findRow, numCPU>>

(* queryBuilder.handleStringCriterionInput *)
handleStringCriterionInput(c) ==
    /\ budget.criteria > 0
    /\ budget' = [budget EXCEPT !.criteria = @ - 1]
    /\ query' = qbStringCriterion(query, c, TitleColumn)
    /\ UNCHANGED <<filter, scanvars, findRow, numCPU>>

(* the criteria of a find request: id lists of up to MaxIds ids, string
   values that are one word, patterns that compile and one that does not *)
CriterionIds == {5, 7, 9}
IdLists == UNION {[1..n -> CriterionIds] : n \in 0..MaxIds}
MultiCriteria ==
    [Modifier : {CriterionModifierIncludes, CriterionModifierIncludesAll,
                 CriterionModifierExcludes, CriterionModifierEquals},
     Value : IdLists]
StringValues == {<<"a">>, <<"a", "+">>, <<"(", "a">>}
StringCriteria ==
    [Modifier : {"", CriterionModifierEquals, CriterionModifierIncludes,
                 CriterionModifierIsNull, CriterionModifierNotNull,
                 CriterionModifierMatchesRegex, CriterionModifierNotMatchesRegex},
     Value : StringValues]

(* the value of a text column: NULL, or a string of characters *)
NullString == [null |-> TRUE, chars |-> <<>>]
Titles ==
    {NullString} \cup
    {[null |-> FALSE, chars |-> s] : s \in {<<>>, <<" ">>, <<"a">>, <<" ", "a">>}}

(* a scene with its tags, its studio (0: none) and its title *)
SceneRows ==
    [id : {1}, tags : SUBSET CriterionIds, studio_id : {0, 9}, title : Titles]

(* one criterion on a new filter for any scene, or up to MaxCriteria criteria
   on a filter with a sub-filter for one scene *)
InitCriterion ==
    /\ config \in {c \in ImageConfigs(1) : ~c.createGalleriesFromFolders}
    /\ db = EmptyDb
    /\ files = [p \in {} |-> NoFile]
    /\ tasks = [t \in Slots |-> Idle]
    /\ screenshots = {}
    /\ thumbs = {}
    /\ hist = [lastDone |-> NoPath, scanned |-> {}, epoch |-> 0,
               started |-> 0, done |-> 0]
    /\ \/ /\ budget = [criteria |-> 1, subFilters |-> 0]
          /\ findRow \in SceneRows
       \/ /\ budget = [criteria |-> MaxCriteria, subFilters |-> 1]
          /\ findRow = [id |-> 1, tags |-> {5, 7}, studio_id |-> 9,
                        title |-> NullString]
    /\ filter = <<NewFilter>>
    /\ query = NewQuery
    /\ numCPU = 1

NextCriterion ==
    \/ \E i \in 1..2 : and(i) \/ or(i) \/ not(i)
    \/ \E i \in 1..2, m \in {TagsBuilder, StudioBuilder}, c \in MultiCriteria :
           handleMultiCriterion(i, m, c)
    \/ \E i \in 1..2, c \in StringCriteria : handleStringCriterion(i, c)
    \/ \E c \in StringCriteria : handleStringCriterionInput(c)

SpecCriterion == InitCriterion /\ [][NextCriterion]_vars

(* ---- what SQLite selects: one clause of the shapes compiled above ------ *)
(* the rows of scenes LEFT JOIN scenes_tags, tags and studios for scene r:
   one for each tag, or one with a NULL tag; 0 is NULL *)
JoinedRows(r) ==
    {[tags |-> x, studio |-> r.studio_id] :
        x \in (IF r.tags = {} THEN {0} ELSE r.tags)}

(* the rows of a table that belong to scene r *)
SubRows(r, table) ==
    IF table = "scenes_tags"
    THEN {[scene_id |-> r.id, tag_id |-> x, studio_id |-> 0] : x \in r.tags}
    ELSE {[scene_id |-> r.id, tag_id |-> 0, studio_id |-> r.studio_id]}

CountOf(tok, sql) == Cardinality({k \in DOMAIN sql : sql[k] = tok})
IndexOf(tok, sql) == CHOOSE k \in DOMAIN sql : sql[k] = tok

(* the values bound to the placeholders of a clause *)
BoundArgs(c) ==
    {c.args[k] : k \in 1..(IF CountOf("?", c.sql) < Len(c.args)
                           THEN CountOf("?", c.sql) ELSE Len(c.args))}

(* a where clause for joined row j of scene r; a comparison with NULL is
   not true *)
EvalWhere(c, j, r) ==
    IF c.sql[1] = "not"
    THEN ~\E s \in SubRows(r, c.sql[9]) :
             LET v == s[c.sql[IndexOf("in", c.sql) - 1]]
             IN v # 0 /\ v \in BoundArgs(c)
    ELSE IF c.sql[4] = "NOT"
    THEN j[c.sql[1]] # 0 /\ j[c.sql[1]] \notin BoundArgs(c)
    ELSE j[c.sql[1]] # 0 /\ j[c.sql[1]] \in BoundArgs(c)

(* the number that decimal digits stand for *)
RECURSIVE Atoi(_)
Atoi(ds) ==
    IF ds = <<>> THEN 0
    ELSE 10 * Atoi(SubSeq(ds, 1, Len(ds) - 1))
             + (CHOOSE d \in 0..9 : Digit(d) = ds[Len(ds)])

(* a having clause "count(distinct t.id) IS n" for the joined rows of a
   scene that passed the where clauses *)
EvalHaving(c, kept) ==
    Cardinality({j[c.sql[4]] : j \in kept} \ {0})
        = Atoi(SubSeq(c.sql, IndexOf("IS", c.sql) + 1, Len(c.sql)))

(* the find query with the clauses of filter f, grouped by scene, returns
   scene r *)
Selected(f, r) ==
    LET kept == {j \in JoinedRows(r) :
                    \A k \in DOMAIN f.whereClauses : EvalWhere(f.whereClauses[k], j, r)}
    IN /\ kept # {}
       /\ \A k \in DOMAIN f.havingClauses : EvalHaving(f.havingClauses[k], kept)

(* the ids scene r is associated with through builder m *)
Assoc(r, m) == IF m = TagsBuilder THEN r.tags ELSE {r.studio_id} \ {0}

(* C24: a scene is selected by an EXCLUDES criterion exactly if none of its
   associated ids is in the list of the criterion. *)
C24_ExcludesMeansDisjoint ==
    [][\A i \in DOMAIN filter, m \in {TagsBuilder, StudioBuilder}, c \in MultiCriteria :
           (/\ filter = <<NewFilter>>
            /\ c.Modifier = CriterionModifierExcludes
            /\ Len(c.Value) > 0
            /\ handleMultiCriterion(i, m, c)) =>
               (Selected(filter'[i], findRow)
                    <=> Assoc(findRow, m) \cap Range(c.Value) = {})]_vars

(* a scene with the tags 5 and 7 is not selected by EXCLUDES of tag 5 *)
C24_Witness ==
    /\ findRow.id # 0
    /\ findRow.tags = {5, 7}
    /\ Len(filter) = 1
    /\ Len(filter[1].whereClauses) = 1
    /\ filter[1].whereClauses[1].sql[1] = "not"
    /\ filter[1].whereClauses[1].args = <<5>>
    /\ ~Selected(filter[1], findRow)

(* C25: a scene is selected by an INCLUDES_ALL criterion exactly if every id
   of the list of the criterion, repeated or not, is associated with it. *)
C25_IncludesAllMeansSubset ==
    [][\A i \in DOMAIN filter, m \in {TagsBuilder, StudioBuilder}, c \in MultiCriteria :
           (/\ filter = <<NewFilter>>
            /\ c.Modifier = CriterionModifierIncludesAll
            /\ Len(c.Value) > 0
            /\ handleMultiCriterion(i, m, c)) =>
               (Selected(filter'[i], findRow)
                    <=> Range(c.Value) \subseteq Assoc(findRow, m))]_vars

(* the filter of tag INCLUDES [5, 7] with the sub-filter, attached by not, of
   studio EXCLUDES [9] *)
TagsNotStudio ==
    /\ Len(filter) = 2
    /\ filter[1] = [multiCriterionHandler(NewFilter, TagsBuilder,
                        [Modifier |-> CriterionModifierIncludes, Value |-> <<5, 7>>])
                    EXCEPT !.subFilterOp = notOp]
    /\ filter[2] = multiCriterionHandler(NewFilter, StudioBuilder,
                       [Modifier |-> CriterionModifierExcludes, Value |-> <<9>>])

(* C26: tag INCLUDES [5, 7] with the not sub-filter studio EXCLUDES [9]
   compiles to "(tags.id IN (?, ?)) AND NOT (not exists (... in (?)))" with
   the arguments 5, 7, 9. *)
C26_TagsNotStudioCompiled ==
    TagsNotStudio =>
        generateWhereClauses(filter, 1) =
            [clause |-> <<"(", "tags", ".", "id", "IN", "(", "?", ",", "?", ")", ")",
                          "AND", "NOT",
                          "(", "not", "exists", "(", "select", "s", ".", "id",
                          "from", "scenes", "as", "s", "where", "s", ".", "id",
                          "=", "scenes", ".", "id", "and", "s", ".", "studio_id",
                          "in", "(", "?", ")", ")", ")">>,
             args |-> <<5, 7, 9>>]

C26_Witness == TagsNotStudio

(* TRIM: the string without its leading and trailing spaces *)
RECURSIVE TrimLeft(_)
TrimLeft(s) == IF s # <<>> /\ Head(s) = " " THEN TrimLeft(Tail(s)) ELSE s
RECURSIVE TrimRight(_)
TrimRight(s) ==
    IF s # <<>> /\ s[Len(s)] = " " THEN TrimRight(SubSeq(s, 1, Len(s) - 1)) ELSE s
Trim(s) == TrimRight(TrimLeft(s))

(* what SQLite makes of the null tests compiled above for column value v; a
   comparison with NULL is not true *)
EvalNullTest(sql, v) ==
    IF sql = TitleColumn \o <<"IS", "NULL">> THEN v.null
    ELSE IF sql = TitleColumn \o <<"IS", "NOT", "NULL">> THEN ~v.null
    ELSE IF sql = <<"(">> \o TitleColumn \o <<"IS", "NULL", "OR", "TRIM", "(">>
                      \o TitleColumn \o <<")", "=", "''", ")">>
    THEN v.null \/ Trim(v.chars) = <<>>
    ELSE IF sql = <<"(">> \o TitleColumn \o <<"IS", "NOT", "NULL", "AND", "TRIM", "(">>
                      \o TitleColumn \o <<")", "!=", "''", ")">>
    THEN ~v.null /\ Trim(v.chars) # <<>>
    ELSE FALSE

(* a text value that is NULL or empty after trimming *)
Absent(v) == v.null \/ Trim(v.chars) = <<>>

Last(s) == s[Len(s)]

(* C27: the clause of an IS_NULL string criterion is true exactly for a
   column that is NULL or empty after trimming, the clause of NOT_NULL
   exactly for the others, on a filter as on a query, and both get the same
   clause. *)
C27_NullMeansAbsent ==
    [][\A c \in StringCriteria :
           c.Modifier \in {CriterionModifierIsNull, CriterionModifierNotNull} =>
               LET want == IF c.Modifier = CriterionModifierIsNull
                           THEN Absent(findRow.title) ELSE ~Absent(findRow.title)
               IN /\ \A i \in DOMAIN filter :
                         handleStringCriterion(i, c) =>
                             /\ EvalNullTest(Last(filter'[i].whereClauses).sql,
                                             findRow.title) = want
                             /\ Last(filter'[i].whereClauses).sql
                                    = Last(qbStringCriterion(query, c, TitleColumn).whereClauses)
                  /\ handleStringCriterionInput(c) =>
                         EvalNullTest(Last(query'.whereClauses), findRow.title) = want]_vars

RegexModifiers == {CriterionModifierMatchesRegex, CriterionModifierNotMatchesRegex}

(* C28: a regexp string criterion whose pattern does not compile sets the
   error of the filter or query and adds no clause and no argument; one whose
   pattern compiles adds one clause with the pattern as its one argument. *)
C28_RegexCompiledFirst ==
    [][\A c \in StringCriteria :
           c.Modifier \in RegexModifiers =>
               /\ \A i \in DOMAIN filter :
                      handleStringCriterion(i, c) =>
                          IF Compiles(c.Value)
                          THEN /\ Len(filter'[i].whereClauses)
                                      = Len(filter[i].whereClauses) + 1
                               /\ Last(filter'[i].whereClauses).args = <<c.Value>>
                               /\ CountOf("?", Last(filter'[i].whereClauses).sql) = 1
                               /\ filter' = [filter EXCEPT ![i].whereClauses =
                                                filter'[i].whereClauses]
                          ELSE filter' = [filter EXCEPT ![i].err = TRUE]
               /\ handleStringCriterionInput(c) =>
                      IF Compiles(c.Value)
                      THEN /\ Len(query'.whereClauses) = Len(query.whereClauses) + 1
                           /\ CountOf("?", Last(query'.whereClauses)) = 1
                           /\ query'.args = query.args \o <<c.Value>>
                           /\ query'.err = query.err
                      ELSE query' = [query EXCEPT !.err = TRUE]]_vars

(* a filter took the error of a pattern that does not compile and got no
   clause *)
C28_Witness ==
    /\ findRow.id # 0
    /\ Len(filter) = 1
    /\ filter[1].err
    /\ filter[1].whereClauses = <<>>
    /\ budget.criteria < MaxCriteria

(* --------------------------- parallel tasks ---------------------------- *)
(* GetParallelTasks: the configured number as it is *)
GetParallelTasks(parallelTasks, cpus) == parallelTasks

(* GetParallelTasksWithAutoDetection for the configured number and
   runtime.NumCPU() *)
GetParallelTasksWithAutoDetection(parallelTasks, cpus) ==
    IF parallelTasks <= 0 THEN (cpus \div 4) + 1 ELSE parallelTasks

(* the scan job takes the number of tasks it runs at a time; budget.parallel
   is that number, 0 before the job has started *)
ScanJob ==
    /\ budget.parallel = 0
    /\ budget' = [parallel |->
                     GetParallelTasksWithAutoDetection(config.parallelTasks, numCPU)]
    /\ UNCHANGED <<scanvars, filter, query, findRow>>
    /\ UNCHANGED numCPU

(* any configured number, also none and a negative one, on any host *)
InitAuto ==
    /\ config \in {[c EXCEPT !.parallelTasks = n] :
                      c \in {c \in ImageConfigs(1) : ~c.createGalleriesFromFolders},
                      n \in (-MaxParallelTasks)..MaxParallelTasks}
    /\ numCPU \in 1..MaxCPU
    /\ db = EmptyDb
    /\ files = [p \in {} |-> NoFile]
    /\ tasks = [t \in Slots |-> Idle]
    /\ screenshots = {}
    /\ thumbs = {}
    /\ hist = [lastDone |-> NoPath, scanned |-> {}, epoch |-> 0,
               started |-> 0, done |-> 0]
    /\ budget = [parallel |-> 0]
    /\ filter = <<NewFilter>>
    /\ query = NewQuery
    /\ findRow = NoRow

SpecAuto == InitAuto /\ [][ScanJob]_vars

(* C29: the scan job runs the configured number of tasks when that is
   positive and otherwise a quarter of the CPUs, rounded down, plus one:
   always at least one and, when detected, never more than there are CPUs. *)
C29_ParallelTasksDetected ==
    budget.parallel # 0 =>
        /\ config.parallelTasks > 0 => budget.parallel = config.parallelTasks
        /\ config.parallelTasks <= 0 =>
               /\ 4 * (budget.parallel - 1) <= numCPU
               /\ numCPU < 4 * budget.parallel
               /\ budget.parallel <= numCPU
        /\ budget.parallel >= 1

(* no number is configured on a host of eight CPUs: three tasks *)
C29_Witness ==
    /\ config.parallelTasks = 0
    /\ numCPU = 8
    /\ budget.parallel = 3

(* ------------------------------ zip rescan ----------------------------- *)
(* the image rows associated with gallery g *)
GalleryImageCount(g) == Cardinality({a \in db.galleryImages : a[1] = g.id})

(* C30: for a zip gallery found by its path, the zip's contents are scanned
   again exactly if the stored modification time is unset or differs from
   the file's, or no image is associated with the gallery; otherwise the
   thumbnails are regenerated only. *)
C30_ZipRescanDecision ==
    [][\A t \in Slots :
           (/\ tasks[t].pc = "galleryLookup"
            /\ tasks'[t] # tasks[t]
            /\ budget'.faults = budget.faults) =>
               \A g \in {r \in db.galleries : r.path = tasks[t].path} :
                   (tasks'[t].pc = "galleryRegen")
                       <=> ~(\/ g.modTime = 0
                             \/ isFileModified(files[tasks[t].path].mtime, g.modTime)
                             \/ GalleryImageCount(g) = 0)]_vars

(* ------------------------------ late claims ---------------------------- *)
(* a zip whose gallery record has no image associated with it while image
   records sit at the paths of some of its entries *)
PartialZip(T, g) ==
    /\ T.top \in ZipPaths
    /\ g \in PriorGalleries(T)
    /\ {a \in T.pre.galleryImages : a[1] = g.id} = {}
    /\ \E i \in T.pre.images : i.path \in EntryPaths(T)

(* C31: the scan of a zip whose gallery has no image associated, while
   records of some of its entries exist, ends without error with a record of
   every entry associated with the gallery. *)
C31_PartialScanRecovered ==
    \A t \in Finished :
        LET T == tasks[t] IN
        \A g \in T.pre.galleries :
            (PartialZip(T, g) /\ ~T.failed) =>
                \A p \in EntryPaths(T) :
                    \E i \in db.images :
                        i.path = p /\ <<g.id, i.id>> \in db.galleryImages

(* C32: after the update of rescanScene every hash stored on the record (the
   oshash and, when there is one, the checksum) is the hash of the content the
   file has now, whatever calculateMD5 is. *)
C32_RescanRefreshesHashes ==
    [][\A t \in Slots :
          (/\ tasks[t].pc = "sceneRescan"
           /\ isFileModified(tasks[t].fileModTime, tasks[t].s.modTime)
           /\ SceneRescan(t)
           /\ db' # db) =>
              LET s == Find(db'.scenes, tasks[t].s.id)
                  f == files[tasks[t].path]
              IN /\ s.oshash = OSHashFromFilePath(f.content)
                 /\ s.checksum # 0 => s.checksum = MD5FromFilePath(f.content)]_vars

(* a scene record that lacks nothing but, possibly, its modification time *)
NothingElseMissing(T, s) ==
    s.sizeValid /\ s.formatValid /\ s.oshash # 0 /\ (T.calculateMD5 => s.checksum # 0)

(* C33: for an existing scene or image record whose modification time is unset
   the scan writes the modification time of the file to the record; when the
   record lacks nothing else that is the only change to the catalog, the only
   write of the run for that file, and no rescan or hash backfill follows. *)
C33_ModTimeSetAlone ==
    [][\A t \in Slots :
          /\ (/\ tasks[t].pc = "sceneSetModTime"
              /\ NothingElseMissing(tasks[t], tasks[t].s)
              /\ SceneSetModTime(t)
              /\ db' # db) =>
                 /\ db' = [db EXCEPT !.scenes =
                              Update(db.scenes, tasks[t].s.id,
                                     [modTime |-> files[tasks[t].path].mtime])]
                 /\ tasks'[t].pc = "done"
                 /\ tasks'[t].did = {"modtime"}
                 /\ tasks'[t].writes = 1
          /\ (/\ tasks[t].pc = "imageSetModTime"
              /\ ImageSetModTime(t)
              /\ db' # db) =>
                 /\ db' = [db EXCEPT !.images =
                              Update(db.images, tasks[t].s.id,
                                     [modTime |-> ImageFile(tasks[t].path).mtime])]
                 /\ tasks'[t].pc \in {"done", "imageLookup"}
                 /\ tasks'[t].writes = tasks[t].writes + 1]_vars

C33_Witness ==
    \E t \in Finished :
        LET T == tasks[t] IN
        /\ T.did = {"modtime"}
        /\ \E s \in T.pre.scenes :
              s.path = T.path /\ s.modTime = 0 /\ NothingElseMissing(T, s)
        /\ \E s \in db.scenes : s.path = T.path /\ s.modTime = T.fileModTime

(* a scene record that has neither hash yet, its file on disk *)
HashlessScene == [id |-> 1, path |-> LegacyPath, checksum |-> 0, oshash |-> 0,
                  modTime |-> 0, sizeValid |-> TRUE, formatValid |-> TRUE, born |-> -1]

InitBackfill ==
    /\ config \in SceneConfigs(1)
    /\ db = [EmptyDb EXCEPT !.scenes = {HashlessScene}, !.nextScene = 2]
    /\ files = [p \in ScenePaths |-> IF p = LegacyPath THEN File1 ELSE NoFile]
    /\ tasks = [t \in Slots |-> Idle]
    /\ screenshots = {}
    /\ thumbs = {}
    /\ budget = [scans |-> MaxStartScans, changes |-> MaxStartFsOps, faults |-> 0]
    /\ hist = [lastDone |-> NoPath, scanned |-> {}, epoch |-> 0,
               started |-> 0, done |-> 0]
    /\ filter = <<NewFilter>>
    /\ query = NewQuery
    /\ findRow = NoRow
    /\ numCPU = 1

(* the steps of a scene scan *)
SceneStep(t) ==
    \/ \E p \in DOMAIN files : StartTask(t, p)
    \/ SceneLookup(t)
    \/ SceneSetModTime(t)
    \/ SceneRescan(t)
    \/ SceneOSHash(t)
    \/ SceneMD5(t)
    \/ SceneHashLookup(t)
    \/ SceneMigrate(t)
    \/ SceneCreate(t)
    \/ TaskDone(t)

NextBackfill == (\E t \in Slots : SceneStep(t)) \/ Env

(* scene scans over a catalog that holds a record without hashes *)
SpecBackfill == InitBackfill /\ [][NextBackfill]_vars

(* C34: when the oshash backfill of an existing scene ends in a collision and
   the scene also lacks its MD5 while calculateMD5 is set, the MD5 backfill is
   the next step of the same run. *)
C34_CollisionAbortsOneField ==
    [][\A t \in Slots :
          (/\ tasks[t].pc = "sceneOSHash"
           /\ tasks[t].calculateMD5
           /\ tasks[t].s.checksum = 0
           /\ SceneOSHash(t)
           /\ tasks'[t].err = "collision") =>
              tasks'[t].pc = "sceneMD5"]_vars

(* C35: a scene scan task has started sub-tasks only if it created the scene
   record itself (no error, no duplicate), at most one sprite and one preview
   sub-task, each only if its Generate flag is set, and at most 2 of them are
   running at any time. *)
C35_SubTasksAfterWrite ==
    \A t \in Slots :
        LET T == tasks[t] IN
        T.pc # "idle" =>
            /\ T.spawned # {} =>
                  /\ T.pc = "done"
                  /\ "create" \in T.did
                  /\ T.retScene \in db.scenes
                  /\ ~T.failed /\ T.err = "" /\ ~T.dup
            /\ T.spawned \subseteq {"sprite", "preview"}
            /\ "sprite" \in T.spawned => T.GenerateSprite
            /\ "preview" \in T.spawned => T.GeneratePreview
            /\ T.iwg \subseteq T.spawned
            /\ Cardinality(T.iwg) <= 2
            /\ Len(T.finished) + Cardinality(T.iwg) = Cardinality(T.spawned)
            /\ \A i, j \in DOMAIN T.finished : T.finished[i] = T.finished[j] => i = j

(* the columns in which two versions of a record differ *)
Diff(r, q) == {f \in DOMAIN r : r[f] # q[f]}

(* the columns the write of each scan step may change in an existing record *)
StepColumns(pc) ==
    CASE pc \in {"sceneSetModTime", "imageSetModTime", "gallerySetModTime"} -> {"modTime"}
      [] pc = "sceneRescan" ->
            {"checksum", "oshash", "formatValid", "sizeValid", "modTime"}
      [] pc \in {"imageRescan", "galleryUpdate"} -> {"checksum", "modTime"}
      [] pc = "sceneFormat" -> {"formatValid"}
      [] pc = "sceneOSHash" -> {"oshash"}
      [] pc = "sceneMD5" -> {"checksum"}
      [] pc \in {"sceneMigrate", "imageMigrate", "galleryWrite"} -> {"path"}
      [] OTHER -> {}

(* every record of tbl is still in tbl2 under its id, changed at most in the
   columns of the step some running task is at *)
Kept(tbl, tbl2) ==
    \A r \in tbl :
        \E q \in tbl2 :
            /\ q.id = r.id
            /\ \A q2 \in tbl2 : q2.id = r.id => q2 = q
            /\ q # r => \E t \in Slots : Diff(r, q) \subseteq StepColumns(tasks[t].pc)

(* C36: no step removes a record from the catalog or changes a record's id,
   and a record changes only in the columns of a modification-time set, a
   rescan, a hash or format backfill or a path migration. *)
C36_RecordsOnlyGrow ==
    [][/\ Kept(db.scenes, db'.scenes)
       /\ Kept(db.images, db'.images)
       /\ Kept(db.galleries, db'.galleries)]_vars

C36_Witness ==
    \E t \in Finished :
        /\ "path" \in tasks[t].did
        /\ \E r \in tasks[t].pre.scenes, q \in db.scenes :
              q.id = r.id /\ q.path # r.path /\ q.path = tasks[t].path

(* the folder galleries of a directory *)
FolderGalleries(tbl, dir) == {g \in tbl : ~g.zip /\ g.path = dir}

(* C37: the catalog never holds two galleries for one directory; the write of
   associateImageWithFolderGallery for a new image leaves exactly one gallery
   at the directory of the image, with the MD5 of the directory path as its
   checksum, created by this write only if there was none, and associates the
   image with it. *)
C37_OneGalleryPerFolder ==
    /\ [](\A g1, g2 \in db.galleries : g1.path = g2.path => g1 = g2)
    /\ [][\A t \in Slots :
             (/\ tasks[t].pc = "imageAssocFolder"
              /\ ImageAssocFolder(t)
              /\ db' # db) =>
                 LET dir == <<"/", tasks[t].path[1]>>
                     before == FolderGalleries(db.galleries, dir)
                     after == FolderGalleries(db'.galleries, dir)
                 IN /\ Cardinality(after) = 1
                    /\ before # {} => after = before
                    /\ \A g \in after :
                          /\ g.checksum = MD5FromString(dir)
                          /\ <<g.id, tasks[t].s.id>> \in db'.galleryImages]_vars

(* two images of one directory, created by concurrent tasks, are associated
   with the one gallery of the directory *)
C37_Witness ==
    \E g \in db.galleries :
        /\ ~g.zip
        /\ Cardinality({a \in db.galleryImages : a[1] = g.id}) = 2
        /\ \A t \in Slots : tasks[t].pc = "done" /\ "assoc" \in tasks[t].did

(* gallery g contains the stored path of image record i: a zip gallery the
   entries of its zip file, a folder gallery the files of its directory *)
Contains(g, i) ==
    IF g.zip THEN IsZipPath(i.path) /\ i.path[1] = g.path[2]
    ELSE ~IsZipPath(i.path) /\ g.path = <<"/", i.path[1]>>

(* C38: every gallery-image association a scan step adds links an image
   record to the gallery that contains the record's stored path. *)
C38_AssociationMatchesPath ==
    [][\A a \in db'.galleryImages \ db.galleryImages :
          \E g \in db'.galleries, i \in db'.images :
              g.id = a[1] /\ i.id = a[2] /\ Contains(g, i)]_vars

(* ------------------------- queryBuilder arguments ---------------------- *)
MaxQueryClauses == 2
MaxAddFilter == 2

(* queryBuilder.addWhere(clause) followed by queryBuilder.addArg(args...) *)
qbAddWhere(c) ==
    /\ budget.clauses > 0
    /\ budget' = [budget EXCEPT !.clauses = @ - 1]
    /\ query' = qbWhere(query, c.sql, c.args)
    /\ UNCHANGED <<filter, scanvars, findRow, numCPU>>

(* queryBuilder.addHaving(clause) followed by queryBuilder.addArg(args...) *)
qbAddHaving(c) ==
    /\ budget.clauses > 0
    /\ budget' = [budget EXCEPT !.clauses = @ - 1]
    /\ query' = [query EXCEPT
                   !.havingClauses = IF Len(c.sql) > 0 THEN Append(@, c.sql) ELSE @,
                   !.args = @ \o c.args]
    /\ UNCHANGED <<filter, scanvars, findRow, numCPU>>

(* repository.executeFindQuery: the SQL text it runs, without the body and
   the sort *)
executeFindQuery(whereClauses, havingClauses) ==
    (IF Len(whereClauses) > 0
     THEN <<"WHERE">> \o Join(whereClauses, <<"AND">>) ELSE <<>>)
    \o <<"GROUP BY", "id">>
    \o (IF Len(havingClauses) > 0
        THEN <<"HAVING">> \o Join(havingClauses, <<"AND">>) ELSE <<>>)

(* the clauses a caller passes with their arguments *)
QueryInputs == {c \in WhereInputs : c.sql # <<>>}

(* a query filled by up to MaxQueryClauses addWhere/addHaving calls and up to
   MaxAddFilter addFilter calls of a filter of one WHERE and one HAVING clause *)
InitQuery ==
    /\ config \in {c \in ImageConfigs(1) : ~c.createGalleriesFromFolders}
    /\ db = EmptyDb
    /\ files = [p \in {} |-> NoFile]
    /\ tasks = [t \in Slots |-> Idle]
    /\ screenshots = {}
    /\ thumbs = {}
    /\ hist = [lastDone |-> NoPath, scanned |-> {}, epoch |-> 0,
               started |-> 0, done |-> 0]
    /\ budget = [where |-> 1, having |-> 1, clauses |-> MaxQueryClauses,
                 queries |-> MaxAddFilter]
    /\ filter = <<NewFilter>>
    /\ query = NewQuery
    /\ findRow = NoRow
    /\ numCPU = 1

NextQuery ==
    \/ \E c \in WhereInputs : addWhere(1, c)
    \/ \E c \in HavingInputs : addHaving(1, c)
    \/ \E c \in QueryInputs : qbAddWhere(c)
    \/ \E c \in QueryInputs : qbAddHaving(c)
    \/ addFilter
    \/ executeFind

SpecQuery == InitQuery /\ [][NextQuery]_vars

(* C39: the arguments of an executed query are, one for one and in this
   order, the arguments the '?' of its SQL text stand for: those of the WHERE
   clauses, then those of the HAVING clauses. *)
C39_ArgsInSqlOrder ==
    query.executed = "sql" =>
        query.args = Placeholders(executeFindQuery(query.whereClauses,
                                                   query.havingClauses), "", 0)
====
